---------------------------- MODULE Spec2Model ----------------------------
(***************************************************************************)
(* Concurrency and resource management layer of WhisperLiveKit             *)
(* (whisperlivekit/performance) and its adaptive token buffer.             *)
(*                                                                         *)
(*   AsyncTaskPool   performance/async_tasks.py   specification TaskSpec   *)
(*                   (TaskLiveSpec: fairness; SweepSpec: the cleanup task) *)
(*   ConnectionPool  performance/connection.py    specification ConnSpec   *)
(*   RateLimiter     performance/connection.py    specification RateSpec   *)
(*   LoadBalancer    performance/connection.py    specification LbSpec     *)
(*   AdaptiveBuffer  adaptive_buffer.py,          specification BufSpec    *)
(*                   adaptive_server.py           (BufLiveSpec: fairness)  *)
(*   AdaptiveCompressor performance/websocket_compression.py  CompSpec     *)
(*   MessageBatcher, OptimizedWebSocketHandler    (same file)  BatchSpec    *)
(*   CircularAudioBuffer  performance/memory.py   specification RingSpec   *)
(*   MemoryPool           performance/memory.py   specification PoolSpec   *)
(*   SmartCache           performance/memory.py   specification CacheSpec  *)
(*   LatencyOptimizer  performance/async_tasks.py   specification LatSpec  *)
(*                                                                         *)
(* Scheduling model.  The asyncio classes run on one event loop: a         *)
(* coroutine runs without interruption from one suspension point to the    *)
(* next.  Every `async with self._lock` block of the pools contains        *)
(* no await, so the lock is never held at a suspension point and           *)
(* asyncio.Lock.acquire always takes its fast path (no suspension).  The   *)
(* lock is therefore not a variable of the model, and each action below is *)
(* the code between two real suspension points:                            *)
(*   Event.wait() with the event clear, Semaphore.acquire() without a free *)
(*   permit, `await task`, `await asyncio.gather(...)`, asyncio.sleep().   *)
(* MessageBatcher and LatencyOptimizer await inside their lock blocks;     *)
(* their locks are variables of the model.                                 *)
(***************************************************************************)
EXTENDS Integers, Sequences, FiniteSets, TLC

\* ------------------------------------------------------------------ bounds
MaxWorkers == 2          \* start(num_workers) draws num_workers from 1..MaxWorkers
MaxSubmits == 3          \* accepted submits per run; also caps _task_counter
MaxTime == 2             \* the clock time.time() runs over 0..MaxTime
MaxConnIds == 2          \* connection ids are drawn from 1..MaxConnIds
MaxHeld == 2             \* operations holding a slot of one connection id
connection_timeout == 1  \* ConnectionPool(connection_timeout = ...), in clock ticks
TicksPerSecond == 2      \* RateSpec: clock ticks in one second
MaxRateTime == 3         \* RateSpec: the clock runs over 0..MaxRateTime ticks
MaxChecks == 22          \* RateSpec: is_allowed calls in one run
MaxProcs == 2            \* LbSpec: processor ids are drawn from 1..MaxProcs
MaxLoad == 2             \* LbSpec: selections of one processor not yet released
MaxTokens == 2           \* BufSpec: tokens added to one buffer in one run
MaxAge == 11             \* BufSpec: the largest age, in ticks of 0.1 s, told apart
MaxMessages == 11        \* BatchSpec: messages passed to send_message in one run
MaxBypassed == 1         \* BatchSpec: messages of one run sent without batching
MaxCalls == 2            \* BatchSpec: calls holding or awaiting the batch lock
MaxOut == 3              \* PoolSpec: arrays of the pool held by the caller at one time
MaxUsage == 4            \* CacheSpec: the largest _memory_usage, in megabytes
MaxSweepTime == 4        \* SweepSpec: the clock time.time() runs over 1..MaxSweepTime
MaxRequests == 11        \* LatSpec: batch_requests calls in one run
MaxBusy == 1             \* LatSpec: batches with the processor when a call arrives

\* ------------------------------------------------- AsyncTaskPool: constants
\* class TaskPriority: CRITICAL = 0, HIGH = 1, NORMAL = 2, LOW = 3
CRITICAL == 0
HIGH == 1
NORMAL == 2
LOW == 3
TaskPriority == <<CRITICAL, HIGH, NORMAL, LOW>>
Priorities == {TaskPriority[i] : i \in 1..Len(TaskPriority)}

Workers == 1..MaxWorkers
\* task ids are numbers: the id n stands for the string "task-n"
\* the task_id argument of submit: 0 stands for None, the pool names the task
SubmitIds == {0}
\* the ids passed to cancel_task
CancelIds == {1, 2}
\* constructor arguments of the pools
ConcurrencyLimits == {1, 2}      \* max_concurrent_tasks
PendingLimits == {1, 2}          \* max_pending_tasks
ConnectionLimits == {1, 2}       \* max_connections
PerConnectionLimits == {1, 2}    \* max_concurrent_per_connection
\* priorities a caller passes to submit
SubmitPriorities == {CRITICAL, NORMAL}

NoTime == -1             \* Optional[float] = None
NoTask == [task_id |-> 0, priority |-> 0, seq |-> 0]

VARIABLES
    \* --- AsyncTaskPool
    max_concurrent_tasks,   \* constructor argument
    max_pending_tasks,      \* constructor argument
    pending_tasks,          \* self._pending_tasks: priority -> deque of (task_info, coro)
    running_tasks,          \* self._running_tasks: task_id -> asyncio.Task (named by its worker)
    completed_tasks,        \* self._completed_tasks: task_id -> TaskInfo
    semaphore,              \* self._semaphore._value
    task_available,         \* self._task_available (asyncio.Event)
    pool_running,           \* self._running
    worker,                 \* position of each worker coroutine of self._workers
    wtask,                  \* the (task_info, coro) a worker has dequeued
    tstate,                 \* state of the asyncio.Task a worker created for its coro
    task_counter,           \* self._task_counter
    total_submitted,        \* self._total_submitted
    total_completed,        \* self._total_completed
    total_failed,           \* self._total_failed
    total_cancelled,        \* self._total_cancelled
    stop_pc,                \* position of a stop() call
    \* --- ConnectionPool
    max_connections,                \* constructor argument
    max_concurrent_per_connection,  \* constructor argument
    connections,            \* self._connections: connection_id -> ConnectionInfo
    connection_loads,       \* self._connection_loads: connection_id -> int
    conn_running,           \* self._running of the pool (its cleanup loop is alive)
    held,                   \* per id: operations that acquired a slot and have not released it
    \* --- RateLimiter
    requests_per_second,    \* constructor argument
    burst_size,             \* constructor argument
    per_connection,         \* constructor argument
    buckets,                \* self._buckets: key -> {'tokens', 'last_refill'}
    bucket_log,             \* per key: when its bucket was created, checks made and denied
    \* --- LoadBalancer
    algorithm,              \* constructor argument
    processors,             \* self._processors: list of processor ids
    processor_loads,        \* self._processor_loads (defaultdict(int))
    processor_health,       \* self._processor_health (defaultdict(lambda: True))
    round_robin_index,      \* self._round_robin_index
    flagged,                \* ids marked unhealthy and not re-marked healthy since
    \* --- AdaptiveBuffer and AdaptiveTranscriptionServer
    max_context_tokens,     \* constructor argument
    correction_interval,    \* constructor argument, in ticks of 0.1 s
    confidence_threshold,   \* constructor argument, in tenths
    instant_buffer,         \* self.instant_buffer
    context_buffer,         \* self.context_buffer
    correction_queue,       \* self.correction_queue
    last_correction_age,    \* time.time() - self.last_correction_time, up to MaxAge
    correction_task,        \* self.correction_task: position of the correction loop
    cancel_requested,       \* correction_task.cancel() was called and is not yet delivered
    is_running,             \* AdaptiveBuffer.is_running
    srv_running,            \* AdaptiveTranscriptionServer.is_running
    total_corrections,      \* self.total_corrections
    correction_history,     \* self.correction_history
    wake_in,                \* ticks left of the asyncio.sleep the loop is in
    to_apply,               \* _apply_corrections: corrections after the one being delivered
    since_pass,             \* time.time() - current_time of the latest pass of this loop
    live_loops,             \* _correction_loop tasks created and not terminated
    stop_call,              \* position of the stop() call
    \* --- AdaptiveCompressor
    min_compress_size,      \* constructor argument, in bytes
    compression_threshold_ratio, \* constructor argument, in tenths
    performance_window,     \* constructor argument
    compression_levels,     \* self._compression_levels: message type -> level
    recent_ratios,          \* self._recent_ratios: (compressed size, original size) pairs
    adjustment_age,         \* time.time() - self._last_adjustment, up to the interval
    \* --- MessageBatcher and OptimizedWebSocketHandler
    max_batch_size,         \* constructor argument
    max_batch_bytes,        \* constructor argument
    batch_timeout,          \* self.batch_timeout_ms, in clock ticks
    batch_queue,            \* self._batch_queue
    batch_size_bytes,       \* self._batch_size_bytes
    batch_timer,            \* self._batch_timer: none, or a handle that is armed or spent
    timer_left,             \* ticks until the armed timer is due
    flush_tasks,            \* tasks created by the timer's lambda that have not run yet
    calls,                  \* add_message and flush_now calls holding or awaiting self._batch_lock, in order
    transport,              \* the messages passed to websocket.send_*, in order
    sent_count,             \* messages passed to send_message
    bypassed,               \* messages sent without batching
    pending_age,            \* ticks since the oldest message of batch_queue was appended
    \* --- CircularAudioBuffer
    max_capacity,           \* constructor argument
    buffer,                 \* self._buffer
    capacity,               \* self._capacity
    size,                   \* self._size
    head,                   \* self._head
    tail,                   \* self._tail
    ring_lock,              \* self._lock (threading.Lock): free, or held by a call that waits for it
    \* --- MemoryPool
    pool_sizes,             \* self.pool_sizes
    max_arrays_per_size,    \* constructor argument
    pools,                  \* self._pools: free-list of each catalogued size
    handed_out,             \* arrays that get_array returned and the caller still holds
    \* --- SmartCache
    max_size,               \* constructor argument
    max_memory_mb,          \* constructor argument
    cache,                  \* self._cache: key -> kind of the value
    access_order,           \* self._access_order
    memory_usage,           \* self._memory_usage
    weak_refs,              \* keys of self._weak_refs
    cache_lock,             \* self._lock (threading.Lock): free, or held by a call that waits for it
    referenced,             \* cached keys whose value the caller still holds a reference to
    use_order,              \* cached keys in the order of their last put or get
    entry_size,             \* cached key -> the size_mb its put() added to _memory_usage
    \* --- AsyncTaskPool: the cleanup task
    cleanup_interval,       \* constructor argument, in clock ticks
    cleanup_task,           \* self._cleanup_task: none, sleeping in asyncio.sleep, or ended
    cleanup_wake,           \* the time at which the sleep of the cleanup task ends
    \* --- LatencyOptimizer (one operation key)
    batch_queues,           \* self._batch_queues[key]: the requests queued, oldest first
    batch_timers,           \* self._batch_timers[key]: absent, or the state of the TimerHandle
    batch_locks,            \* self._batch_locks[key] (asyncio.Lock): free or held
    futures,                \* the future of each batch_requests call: pending, or what it was set to
    caller,                 \* position of each batch_requests call
    process_tasks,          \* _process_batch tasks created by the timer and not yet run
    processing,             \* the batches handed to batch_processor that has not returned
    requested,              \* number of batch_requests calls made
    \* --- shared
    now,                    \* time.time()
    last                    \* the last call made and what it returned

taskVars == <<max_concurrent_tasks, max_pending_tasks, pending_tasks, running_tasks,
              completed_tasks, semaphore, task_available, pool_running, worker,
              wtask, tstate, task_counter, total_submitted, total_completed,
              total_failed, total_cancelled, stop_pc>>

connVars == <<max_connections, max_concurrent_per_connection, connections,
              connection_loads, conn_running, held>>

rateVars == <<requests_per_second, burst_size, per_connection, buckets, bucket_log>>

lbVars == <<algorithm, processors, processor_loads, processor_health,
            round_robin_index, flagged>>

bufVars == <<max_context_tokens, correction_interval, confidence_threshold,
             instant_buffer, context_buffer, correction_queue, last_correction_age,
             correction_task, cancel_requested, is_running, srv_running,
             total_corrections, correction_history, wake_in, to_apply, since_pass,
             live_loops, stop_call>>

compVars == <<min_compress_size, compression_threshold_ratio, performance_window,
              compression_levels, recent_ratios, adjustment_age>>

batchVars == <<max_batch_size, max_batch_bytes, batch_timeout, batch_queue,
               batch_size_bytes, batch_timer, timer_left, flush_tasks, calls,
               transport, sent_count, bypassed, pending_age>>

ringVars == <<max_capacity, buffer, capacity, size, head, tail, ring_lock>>

poolVars == <<pool_sizes, max_arrays_per_size, pools, handed_out>>

cacheVars == <<max_size, max_memory_mb, cache, access_order, memory_usage, weak_refs,
               cache_lock, referenced, use_order, entry_size>>

sweepVars == <<cleanup_interval, cleanup_task, cleanup_wake>>

latVars == <<batch_queues, batch_timers, batch_locks, futures, caller, process_tasks,
             processing, requested>>

\* what the actions of one component leave alone
\* (the cleanup task belongs to the pool: start() and stop() change it)
nonTaskVars == <<connVars, rateVars, lbVars, bufVars, compVars, batchVars, ringVars, poolVars, cacheVars, latVars>>
nonConnVars == <<taskVars, rateVars, lbVars, bufVars, compVars, batchVars, ringVars, poolVars, cacheVars, sweepVars, latVars>>
nonRateVars == <<taskVars, connVars, lbVars, bufVars, compVars, batchVars, ringVars, poolVars, cacheVars, sweepVars, latVars>>
nonLbVars == <<taskVars, connVars, rateVars, bufVars, compVars, batchVars, ringVars, poolVars, cacheVars, sweepVars, latVars>>
nonBufVars == <<taskVars, connVars, rateVars, lbVars, compVars, batchVars, ringVars, poolVars, cacheVars, sweepVars, latVars>>
nonCompVars == <<taskVars, connVars, rateVars, lbVars, bufVars, batchVars, ringVars, poolVars, cacheVars, sweepVars, latVars>>
nonBatchVars == <<taskVars, connVars, rateVars, lbVars, bufVars, compVars, ringVars, poolVars, cacheVars, sweepVars, latVars>>
nonRingVars == <<taskVars, connVars, rateVars, lbVars, bufVars, compVars, batchVars, poolVars, cacheVars, sweepVars, latVars>>
nonPoolVars == <<taskVars, connVars, rateVars, lbVars, bufVars, compVars, batchVars, ringVars, cacheVars, sweepVars, latVars>>
nonCacheVars == <<taskVars, connVars, rateVars, lbVars, bufVars, compVars, batchVars, ringVars, poolVars, sweepVars, latVars>>
nonSweepVars == <<taskVars, connVars, rateVars, lbVars, bufVars, compVars, batchVars, ringVars, poolVars, cacheVars, latVars>>
nonLatVars == <<taskVars, connVars, rateVars, lbVars, bufVars, compVars, batchVars, ringVars, poolVars, cacheVars, sweepVars>>

vars == <<taskVars, connVars, rateVars, lbVars, bufVars, compVars, batchVars, ringVars, poolVars, cacheVars, sweepVars, latVars, now, last>>

Call(op, id, res) == [op |-> op, id |-> id, res |-> res]
InitLast == Call("init", 0, "")
\* a step that returns nothing to a caller
Internal == Call("internal", 0, "")

\* ------------------------------------------------------------ small helpers
\* dict[k] = v
Put(f, k, v) == [x \in (DOMAIN f) \cup {k} |-> IF x = k THEN v ELSE f[x]]
\* dict.pop(k, None) / del dict[k]
Del(f, k) == [x \in (DOMAIN f) \ {k} |-> f[x]]
EmptyDict == [x \in {} |-> 0]

RECURSIVE SumLen(_, _)
SumLen(q, S) == IF S = {} THEN 0
                ELSE LET p == CHOOSE x \in S : TRUE
                     IN Len(q[p]) + SumLen(q, S \ {p})

\* sum(len(q) for q in self._pending_tasks.values())
TotalPending == SumLen(pending_tasks, Priorities)

\* ------------------------------------------------------- AsyncTaskPool.Init
\* AsyncTaskPool(max_concurrent_tasks = mc, max_pending_tasks = mp)
TaskInit(mc, mp) ==
    /\ max_concurrent_tasks = mc
    /\ max_pending_tasks = mp
    /\ pending_tasks = [p \in Priorities |-> <<>>]
    /\ running_tasks = EmptyDict
    /\ completed_tasks = EmptyDict
    /\ semaphore = max_concurrent_tasks
    /\ task_available = FALSE
    /\ pool_running = FALSE
    /\ worker = [w \in Workers |-> "none"]
    /\ wtask = [w \in Workers |-> NoTask]
    /\ tstate = [w \in Workers |-> "none"]
    /\ task_counter = 0
    /\ total_submitted = 0
    /\ total_completed = 0
    /\ total_failed = 0
    /\ total_cancelled = 0
    /\ stop_pc = "idle"


\* ------------------------------------------------- AsyncTaskPool.start/stop
\* start(num_workers): one _worker coroutine per worker, created but not yet
\* run.  (One start() and one stop() per run: a start() after or during a
\* stop() is not modelled.)  The cleanup task it creates is taken at its first
\* `await asyncio.sleep(self.cleanup_interval)`, which it reaches before time
\* passes.
Start(n) ==
    /\ ~pool_running
    /\ stop_pc = "idle"
    /\ \A w \in Workers : worker[w] = "none"
    /\ pool_running' = TRUE
    /\ worker' = [w \in Workers |-> IF w <= n THEN "start" ELSE "none"]
    /\ cleanup_task' = "sleeping"
    /\ cleanup_wake' = now + cleanup_interval
    /\ last' = Internal
    /\ UNCHANGED <<max_concurrent_tasks, max_pending_tasks, pending_tasks, running_tasks,
                   completed_tasks, semaphore, task_available, wtask, tstate,
                   task_counter, total_submitted, total_completed, total_failed,
                   total_cancelled, stop_pc, now, cleanup_interval, nonTaskVars>>

\* start() on a running pool: logs a warning and returns
StartWhileRunning ==
    /\ pool_running
    /\ last' = Internal
    /\ UNCHANGED <<taskVars, now, sweepVars, nonTaskVars>>

\* stop() up to `await asyncio.gather(*self._workers)`; with no workers the
\* call runs to its end
StopBegin ==
    /\ stop_pc = "idle"
    /\ pool_running' = FALSE
    /\ pending_tasks' = [p \in Priorities |-> <<>>]
    /\ stop_pc' = IF \E w \in Workers : worker[w] # "none" THEN "gather" ELSE "stopped"
    /\ cleanup_task' = IF (\E w \in Workers : worker[w] # "none") \/ cleanup_task = "none"
                     THEN cleanup_task ELSE "ended"
    /\ last' = Internal
    /\ UNCHANGED <<max_concurrent_tasks, max_pending_tasks, running_tasks,
                   completed_tasks, semaphore, task_available, worker, wtask, tstate,
                   task_counter, total_submitted, total_completed, total_failed,
                   total_cancelled, now, cleanup_interval, cleanup_wake, nonTaskVars>>

\* gather returns once every worker has finished; self._workers.clear();
\* self._cleanup_task.cancel() ends the sleeping cleanup task
StopEnd ==
    /\ stop_pc = "gather"
    /\ \A w \in Workers : worker[w] \in {"none", "exited"}
    /\ worker' = [w \in Workers |-> "none"]
    /\ stop_pc' = "stopped"
    /\ cleanup_task' = IF cleanup_task = "none" THEN "none" ELSE "ended"
    /\ last' = Internal
    /\ UNCHANGED <<max_concurrent_tasks, max_pending_tasks, pending_tasks, running_tasks,
                   completed_tasks, semaphore, task_available, pool_running, wtask,
                   tstate, task_counter, total_submitted, total_completed,
                   total_failed, total_cancelled, now, cleanup_interval, cleanup_wake, nonTaskVars>>

\* variant: the limit test off by one
QueueIsFull_OffByOne(total) == total > max_pending_tasks

\* ------------------------------------------------------ AsyncTaskPool.submit
\* if total_pending >= self.max_pending_tasks: raise asyncio.QueueFull
QueueIsFull(total) == total >= max_pending_tasks

\* self._task_available.set(): every worker blocked in wait() is woken
EventSet(ws) == [w \in Workers |-> IF ws[w] = "wait" THEN "woken" ELSE ws[w]]

\* submit(coro, priority, task_id); tid = 0 stands for task_id=None
Submit(p, tid) ==
    /\ total_submitted < MaxSubmits
    /\ tid = 0 => task_counter < MaxSubmits
    /\ LET id == IF tid = 0 THEN task_counter + 1 ELSE tid
           item == [task_id |-> id, priority |-> p, seq |-> total_submitted + 1]
       IN /\ task_counter' = IF tid = 0 THEN task_counter + 1 ELSE task_counter
          /\ IF QueueIsFull(TotalPending)
             THEN /\ last' = Call("submit", 0, "QueueFull")
                  /\ UNCHANGED <<pending_tasks, total_submitted, task_available, worker>>
             ELSE /\ pending_tasks' = [pending_tasks EXCEPT ![p] = Append(@, item)]
                  /\ total_submitted' = total_submitted + 1
                  /\ task_available' = TRUE
                  /\ worker' = EventSet(worker)
                  /\ last' = Call("submit", 0, "ok")
    /\ UNCHANGED <<max_concurrent_tasks, max_pending_tasks, running_tasks, completed_tasks,
                   semaphore, pool_running, wtask, tstate, total_completed,
                   total_failed, total_cancelled, stop_pc, now, sweepVars, nonTaskVars>>

\* ----------------------------------------------------- AsyncTaskPool._worker
\* _get_next_task: `for priority in TaskPriority: if self._pending_tasks[priority]`
\* the index in TaskPriority of the first non-empty queue (0 if all are empty)
RECURSIVE FirstNonEmpty(_, _)
FirstNonEmpty(q, i) ==
    IF i > Len(TaskPriority) THEN 0
    ELSE IF q[TaskPriority[i]] # <<>> THEN i
    ELSE FirstNonEmpty(q, i + 1)

\* variant: the queues scanned from the highest ordinal down
RECURSIVE LastNonEmpty(_, _)
LastNonEmpty(q, i) ==
    IF i < 1 THEN 0
    ELSE IF q[TaskPriority[i]] # <<>> THEN i
    ELSE LastNonEmpty(q, i - 1)

NextPriority_Reversed(q) == TaskPriority[LastNonEmpty(q, Len(TaskPriority))]

NextPriority(q) == TaskPriority[FirstNonEmpty(q, 1)]

\* deque.popleft(): the item returned (GetNextTask removes it from the deque;
\* the items of a deque are distinct, each carries its own seq)
PopLeft(dq) == Head(dq)

\* variant: acquire() that never waits
SemaphoreFree_NoWait(v) == TRUE

\* Semaphore.acquire() returns at once
SemaphoreFree(v) == v > 0

\* the task is created and registered and the worker suspends in `await task`
RunTask(w, item, sem0, rt0) ==
    /\ semaphore' = sem0 - 1
    /\ running_tasks' = Put(rt0, item.task_id, w)
    /\ worker' = [worker EXCEPT ![w] = "run"]
    /\ wtask' = [wtask EXCEPT ![w] = item]
    /\ tstate' = [tstate EXCEPT ![w] = "running"]

\* `await self._semaphore.acquire()` with a dequeued item.  A free permit is
\* taken at once; with none the worker blocks.  With a free permit and other
\* workers already waiting, Python >= 3.11 queues the caller behind them
\* (Semaphore.locked()), older versions let it take the permit: both happen.
Acquire(w, item, sem0, rt0) ==
    \/ /\ SemaphoreFree(sem0)
       /\ RunTask(w, item, sem0, rt0)
    \/ /\ ~SemaphoreFree(sem0) \/ \E v \in Workers \ {w} : worker[v] = "sem"
       /\ semaphore' = sem0
       /\ running_tasks' = rt0
       /\ worker' = [worker EXCEPT ![w] = "sem"]
       /\ wtask' = [wtask EXCEPT ![w] = item]
       /\ tstate' = [tstate EXCEPT ![w] = "none"]

\* the worker leaves `while self._running`
WorkerExit(w, sem0, rt0) ==
    /\ semaphore' = sem0
    /\ running_tasks' = rt0
    /\ worker' = [worker EXCEPT ![w] = "exited"]
    /\ wtask' = [wtask EXCEPT ![w] = NoTask]
    /\ tstate' = [tstate EXCEPT ![w] = "none"]
    /\ UNCHANGED <<pending_tasks, task_available>>

\* the worker blocks in `await self._task_available.wait()`
WorkerBlock(w, sem0, rt0) ==
    /\ semaphore' = sem0
    /\ running_tasks' = rt0
    /\ worker' = [worker EXCEPT ![w] = "wait"]
    /\ wtask' = [wtask EXCEPT ![w] = NoTask]
    /\ tstate' = [tstate EXCEPT ![w] = "none"]

\* from `task_info, coro = await self._get_next_task()` to the next suspension
GetNextTask(w, sem0, rt0) ==
    IF TotalPending > 0
    THEN LET p == NextPriority(pending_tasks)
             item == PopLeft(pending_tasks[p])
         IN /\ pending_tasks' = [pending_tasks EXCEPT
                                    ![p] = SelectSeq(@, LAMBDA x : x # item)]
            /\ UNCHANGED task_available
            /\ Acquire(w, item, sem0, rt0)
    ELSE \* self._task_available.clear(); return None, None; continue
         /\ task_available' = FALSE
         /\ UNCHANGED pending_tasks
         /\ IF pool_running
            THEN WorkerBlock(w, sem0, rt0)
            ELSE /\ semaphore' = sem0
                 /\ running_tasks' = rt0
                 /\ worker' = [worker EXCEPT ![w] = "exited"]
                 /\ wtask' = [wtask EXCEPT ![w] = NoTask]
                 /\ tstate' = [tstate EXCEPT ![w] = "none"]

\* from the test of `while self._running` to the next suspension
LoopHead(w, sem0, rt0) ==
    IF ~pool_running THEN WorkerExit(w, sem0, rt0)
    ELSE IF ~task_available
         THEN WorkerBlock(w, sem0, rt0) /\ UNCHANGED <<pending_tasks, task_available>>
         ELSE GetNextTask(w, sem0, rt0)

\* a worker coroutine created by start() runs for the first time
WorkerBegin(w) ==
    /\ worker[w] = "start"
    /\ LoopHead(w, semaphore, running_tasks)
    /\ last' = Internal
    /\ UNCHANGED <<max_concurrent_tasks, max_pending_tasks, completed_tasks, pool_running,
                   task_counter, total_submitted, total_completed, total_failed,
                   total_cancelled, stop_pc, now, sweepVars, nonTaskVars>>

\* a worker woken by _task_available.set() resumes after wait()
WorkerWake(w) ==
    /\ worker[w] = "woken"
    /\ GetNextTask(w, semaphore, running_tasks)
    /\ last' = Internal
    /\ UNCHANGED <<max_concurrent_tasks, max_pending_tasks, completed_tasks, pool_running,
                   task_counter, total_submitted, total_completed, total_failed,
                   total_cancelled, stop_pc, now, sweepVars, nonTaskVars>>

\* a worker blocked in Semaphore.acquire() obtains a permit
WorkerAcquire(w) ==
    /\ worker[w] = "sem"
    /\ SemaphoreFree(semaphore)
    /\ RunTask(w, wtask[w], semaphore, running_tasks)
    /\ last' = Internal
    /\ UNCHANGED <<max_concurrent_tasks, max_pending_tasks, pending_tasks, completed_tasks,
                   task_available, pool_running, task_counter, total_submitted,
                   total_completed, total_failed, total_cancelled, stop_pc, now, sweepVars, nonTaskVars>>


\* outcomes of the asyncio.Task wrapping a coro: it returns, raises, or ends
\* by CancelledError; the last only after task.cancel() (cancellation is
\* cooperative: a coro may also catch it and return or raise)
Done == {"ok", "fail", "cancelled"}

\* the fields of the TaskInfo the worker writes: result / error and
\* completed_at are set on the normal and the `except Exception` path, not on
\* the CancelledError path; stored_at is the time at which the record is put
\* into _completed_tasks (the code keeps no such field)
TaskInfo(item, outcome) ==
    [task_id |-> item.task_id,
     error |-> (outcome = "fail"),
     completed_at |-> IF outcome \in {"ok", "fail"} THEN now ELSE NoTime,
     stored_at |-> now]

\* variant: the release placed after `await task` instead of in a finally
SemaphoreRelease_NotOnCancel(v, outcome) == IF outcome = "cancelled" THEN v ELSE v + 1

\* the outer `finally: self._semaphore.release()`
SemaphoreRelease(v, outcome) == v + 1

\* variant: no inner `except Exception`, the error reaches the loop's handler
\* written as a break
LeavesLoop_OnError(outcome) == outcome \in {"cancelled", "fail"}

\* `except asyncio.CancelledError: raise` reaches the outer
\* `except asyncio.CancelledError: break`; `except Exception` is handled
\* inside and the loop goes on
LeavesLoop(outcome) == outcome = "cancelled"

\* the task of worker w ends with `outcome` and the worker resumes from
\* `await task`: counters, the inner finally (running set, record), the outer
\* finally (semaphore), then break or the next turn of the loop
WorkerTaskDone(w, outcome) ==
    /\ worker[w] = "run"
    /\ outcome = "cancelled" => tstate[w] = "cancelling"
    /\ LET item == wtask[w]
           rt1 == Del(running_tasks, item.task_id)
           sem1 == SemaphoreRelease(semaphore, outcome)
       IN /\ total_completed' = total_completed + (IF outcome = "ok" THEN 1 ELSE 0)
          /\ total_cancelled' = total_cancelled + (IF outcome = "cancelled" THEN 1 ELSE 0)
          /\ total_failed' = total_failed + (IF outcome = "fail" THEN 1 ELSE 0)
          /\ completed_tasks' = Put(completed_tasks, item.task_id, TaskInfo(item, outcome))
          /\ IF LeavesLoop(outcome)
             THEN WorkerExit(w, sem1, rt1)
             ELSE LoopHead(w, sem1, rt1)
          /\ last' = Call("task", w, outcome)
    /\ UNCHANGED <<max_concurrent_tasks, max_pending_tasks, pool_running, task_counter,
                   total_submitted, stop_pc, now, sweepVars, nonTaskVars>>

\* ------------------------------------------------- AsyncTaskPool.cancel_task
\* `if task_id in self._running_tasks`
IsTracked(id) == id \in DOMAIN running_tasks

\* variant: every running task is cancelled
TaskCancel_All(ts, w) == [v \in Workers |-> IF ts[v] = "running" THEN "cancelling" ELSE ts[v]]

\* task.cancel(): a request
TaskCancel(ts, w) == [ts EXCEPT ![w] = IF @ = "running" THEN "cancelling" ELSE @]

CancelTask(id) ==
    /\ IF IsTracked(id)
       THEN /\ tstate' = TaskCancel(tstate, running_tasks[id])
            /\ last' = Call("cancel_task", id, "True")
       ELSE /\ UNCHANGED tstate
            /\ last' = Call("cancel_task", id, "False")
    /\ UNCHANGED <<max_concurrent_tasks, max_pending_tasks, pending_tasks, running_tasks,
                   completed_tasks, semaphore, task_available, pool_running, worker,
                   wtask, task_counter, total_submitted, total_completed,
                   total_failed, total_cancelled, stop_pc, now, sweepVars, nonTaskVars>>

\* ------------------------------------------ AsyncTaskPool._cleanup_loop
\* AsyncTaskPool(cleanup_interval = ci)
SweepInit(ci) ==
    /\ cleanup_interval = ci
    /\ cleanup_task = "none"
    /\ cleanup_wake = 0

\* `task_info.completed_at and task_info.completed_at < cutoff_time`
\* (None and 0.0 are falsy)
IsOld(info, cutoff_time) ==
    /\ info.completed_at /= NoTime
    /\ info.completed_at /= 0
    /\ info.completed_at < cutoff_time

\* the dict without the keys in S
Without_Keys(d, S) == [x \in (DOMAIN d) \ S |-> d[x]]

\* the sleep of the cleanup task ends: _cleanup_completed_tasks(), then the
\* test of `while self._running` and the next sleep
CleanupSweep ==
    /\ cleanup_task = "sleeping"
    /\ now >= cleanup_wake
    /\ LET cutoff_time == now - cleanup_interval * 2
           old_tasks == {id \in DOMAIN completed_tasks :
                            IsOld(completed_tasks[id], cutoff_time)}
       IN /\ completed_tasks' = Without_Keys(completed_tasks, old_tasks)
          /\ last' = [op |-> "sweep", id |-> 0, res |-> old_tasks]
    /\ cleanup_task' = IF pool_running THEN "sleeping" ELSE "ended"
    /\ cleanup_wake' = IF pool_running THEN now + cleanup_interval ELSE cleanup_wake
    /\ UNCHANGED <<max_concurrent_tasks, max_pending_tasks, pending_tasks, running_tasks,
                   semaphore, task_available, pool_running, worker, wtask, tstate,
                   task_counter, total_submitted, total_completed, total_failed,
                   total_cancelled, stop_pc, cleanup_interval, now, nonTaskVars>>

\* time passes; a sleep that has ended is resumed first
SweepTick ==
    /\ now < MaxSweepTime
    /\ ~(cleanup_task = "sleeping" /\ now >= cleanup_wake)
    /\ now' = now + 1
    /\ last' = Internal
    /\ UNCHANGED <<taskVars, sweepVars, nonTaskVars>>

\* ===================================================== ConnectionPool
\* ConnectionState values the pool assigns
CONNECTED == "connected"
PROCESSING == "processing"
IDLE == "idle"

ConnIds == 1..MaxConnIds

\* ConnectionPool(max_connections = mx, max_concurrent_per_connection = mpc)
ConnInit(mx, mpc) ==
    /\ max_connections = mx
    /\ max_concurrent_per_connection = mpc
    /\ connections = EmptyDict
    /\ connection_loads = EmptyDict
    /\ conn_running = FALSE
    /\ held = [c \in ConnIds |-> 0]

\* ConnectionPool.start / stop: the cleanup loop is created / cancelled in its sleep
PoolStart ==
    /\ ~conn_running
    /\ conn_running' = TRUE
    /\ last' = Internal
    /\ UNCHANGED <<max_connections, max_concurrent_per_connection, connections,
                   connection_loads, held, now, nonConnVars>>

PoolStop ==
    /\ conn_running
    /\ conn_running' = FALSE
    /\ last' = Internal
    /\ UNCHANGED <<max_connections, max_concurrent_per_connection, connections,
                   connection_loads, held, now, nonConnVars>>

\* variant: the limit test off by one
PoolFull_OffByOne(n) == n > max_connections

\* `if len(self._connections) >= self.max_connections`
PoolFull(n) == n >= max_connections

\* add_connection(connection_id); an id generated by uuid4 is an id of ConnIds
\* that is not in use
AddConnection(c) ==
    /\ IF PoolFull(Cardinality(DOMAIN connections))
       THEN /\ last' = Call("add_connection", 0, "None")
            /\ UNCHANGED <<connections, connection_loads>>
       ELSE /\ connections' = Put(connections, c, [state |-> CONNECTED, last_activity |-> now])
            /\ connection_loads' = Put(connection_loads, c, 0)
            /\ last' = Call("add_connection", 0, "id")
    /\ UNCHANGED <<max_connections, max_concurrent_per_connection, conn_running, held,
                   now, nonConnVars>>

\* the body of remove_connection, applied to the two dicts
RemoveFrom(d, c) == IF c \in DOMAIN connections THEN Del(d, c) ELSE d

RemoveConnection(c) ==
    /\ connections' = RemoveFrom(connections, c)
    /\ connection_loads' = RemoveFrom(connection_loads, c)
    /\ last' = Internal
    /\ UNCHANGED <<max_connections, max_concurrent_per_connection, conn_running, held,
                   now, nonConnVars>>

\* update_connection_activity: conn.last_activity = time.time()
UpdateActivity(c) ==
    /\ connections' = IF c \in DOMAIN connections
                      THEN [connections EXCEPT ![c].last_activity = now]
                      ELSE connections
    /\ last' = Internal
    /\ UNCHANGED <<max_connections, max_concurrent_per_connection, connection_loads,
                   conn_running, held, now, nonConnVars>>

\* `if current_load >= self.max_concurrent_per_connection: return False`
Overloaded(load) == load >= max_concurrent_per_connection

\* acquire_connection_slot by a new operation on connection c
AcquireSlot(c) ==
    /\ held[c] < MaxHeld
    /\ IF c \notin DOMAIN connections \/ Overloaded(connection_loads[c])
       THEN /\ last' = Call("acquire_connection_slot", 0, "False")
            /\ UNCHANGED <<connections, connection_loads, held>>
       ELSE /\ connection_loads' = [connection_loads EXCEPT ![c] = @ + 1]
            /\ connections' = [connections EXCEPT ![c].state = PROCESSING]
            /\ held' = [held EXCEPT ![c] = @ + 1]
            /\ last' = Call("acquire_connection_slot", 0, "True")
    /\ UNCHANGED <<max_connections, max_concurrent_per_connection, conn_running,
                   now, nonConnVars>>

\* release_connection_slot by an operation that acquired a slot for c
ReleaseSlot(c) ==
    /\ held[c] > 0
    /\ held' = [held EXCEPT ![c] = @ - 1]
    /\ IF c \in DOMAIN connections
       THEN LET load == IF connection_loads[c] > 0 THEN connection_loads[c] - 1
                        ELSE connection_loads[c]
            IN /\ connection_loads' = [connection_loads EXCEPT ![c] = load]
               /\ connections' = IF load = 0
                                 THEN [connections EXCEPT ![c].state = IDLE]
                                 ELSE connections
       ELSE UNCHANGED <<connections, connection_loads>>
    /\ last' = Internal
    /\ UNCHANGED <<max_connections, max_concurrent_per_connection, conn_running,
                   now, nonConnVars>>

\* get_least_loaded_connection(): the ids the loop over _connection_loads can
\* return, of which it returns the first in the order of the dict; the empty
\* set stands for None
GetLeastLoadedConnection ==
    IF DOMAIN connections = {}
    THEN {}
    ELSE LET loads == {connection_loads[c] : c \in DOMAIN connection_loads}
             min_load == CHOOSE m \in loads : \A l \in loads : m <= l
         IN {conn_id \in DOMAIN connection_loads :
                 /\ connection_loads[conn_id] = min_load
                 /\ conn_id \in DOMAIN connections
                 /\ connections[conn_id].state = CONNECTED
                 /\ connection_loads[conn_id] < max_concurrent_per_connection}

\* variant: the sweep without the load test
IsInactive_IgnoringLoad(c) == now - connections[c].last_activity > connection_timeout

\* the test of _cleanup_inactive_connections, under the lock
IsInactive(c) ==
    /\ now - connections[c].last_activity > connection_timeout
    /\ connection_loads[c] = 0

\* one pass of the cleanup loop: collect under the lock, then remove_connection
\* for each id collected.  Neither the lock nor remove_connection suspends, so
\* no other coroutine runs between the test and the removal.
CleanupInactive ==
    /\ conn_running
    /\ LET inactive_connections == {c \in DOMAIN connections : IsInactive(c)}
       IN /\ connections' = [c \in DOMAIN connections \ inactive_connections |->
                               connections[c]]
          /\ connection_loads' = [c \in DOMAIN connection_loads \ inactive_connections |->
                                    connection_loads[c]]
    /\ last' = Call("sweep", Cardinality({c \in DOMAIN connections : IsInactive(c)}), "")
    /\ UNCHANGED <<max_connections, max_concurrent_per_connection, conn_running, held,
                   now, nonConnVars>>

\* ============================================================== RateLimiter
\* performance/connection.py, class RateLimiter.  is_allowed runs under a
\* threading.Lock from its first read of the bucket to its return: one action.
\*
\* Units.  In RateSpec the clock counts ticks of 1/TicksPerSecond second, and a
\* bucket holds its tokens in units of 1/TicksPerSecond token, so that
\* elapsed * requests_per_second is exact:  (ticks / TicksPerSecond) * rate tokens
\* = ticks * rate units.  One token is TicksPerSecond units.
OneToken == TicksPerSecond
\* the key of the bucket shared by all callers: 0 stands for "global"
GLOBAL == 0
\* connection ids passed to is_allowed
RateIds == {1, 2}
\* constructor arguments (requests_per_second, burst_size)
RateLimits == {<<10, 20>>, <<3, 2>>}
\* durations that pass between two calls, in ticks: one tick, one second
Elapses == {1, TicksPerSecond}

\* RateLimiter(requests_per_second = r, burst_size = b, per_connection = pc)
RateInit(r, b, pc) ==
    /\ requests_per_second = r
    /\ burst_size = b
    /\ per_connection = pc
    /\ buckets = EmptyDict
    /\ bucket_log = EmptyDict

\* if not self.per_connection: connection_id = "global"
BucketKey(connection_id) == IF per_connection THEN connection_id ELSE GLOBAL

\* self._buckets[key]: the defaultdict creates {'tokens': burst_size,
\* 'last_refill': time.time()} for a key it does not hold
Bucket(key) ==
    IF key \in DOMAIN buckets THEN buckets[key]
    ELSE [tokens |-> burst_size * OneToken, last_refill |-> now]

Min(a, b) == IF a <= b THEN a ELSE b

\* min(self.burst_size, bucket['tokens'] + elapsed * self.requests_per_second)
Refill_Uncapped(tokens, elapsed) == tokens + elapsed * requests_per_second
Refill(tokens, elapsed) ==
    Min(burst_size * OneToken, tokens + elapsed * requests_per_second)

RECURSIVE SumChecks(_)
SumChecks(S) == IF S = {} THEN 0
                ELSE LET k == CHOOSE x \in S : TRUE
                     IN bucket_log[k].checks + SumChecks(S \ {k})
\* the is_allowed calls made so far
TotalChecks == SumChecks(DOMAIN bucket_log)

\* is_allowed(connection_id)
IsAllowed(connection_id) ==
    LET key == BucketKey(connection_id)
        bucket == Bucket(key)
        current_time == now
        elapsed == current_time - bucket.last_refill
        tokens == Refill(bucket.tokens, elapsed)
        allowed == tokens >= OneToken
        log == IF key \in DOMAIN bucket_log THEN bucket_log[key]
               ELSE [created |-> now, checks |-> 0, denied |-> 0]
    IN /\ TotalChecks < MaxChecks
       /\ buckets' = Put(buckets, key,
                         [tokens |-> IF allowed THEN tokens - OneToken ELSE tokens,
                          last_refill |-> current_time])
       /\ bucket_log' = Put(bucket_log, key,
                            [created |-> log.created,
                             checks |-> log.checks + 1,
                             denied |-> log.denied + (IF allowed THEN 0 ELSE 1)])
       /\ last' = Call("is_allowed", key, IF allowed THEN "True" ELSE "False")
       /\ UNCHANGED <<requests_per_second, burst_size, per_connection, now, nonRateVars>>

\* time passes between two calls
RateElapse(d) ==
    /\ now + d <= MaxRateTime
    /\ now' = now + d
    /\ last' = Internal
    /\ UNCHANGED <<rateVars, nonRateVars>>

\* ============================================================= LoadBalancer
\* performance/connection.py, class LoadBalancer.  No `async with self._lock`
\* block contains an await: every method is one action.
\* processor ids are numbers; 0 stands for None
ProcIds == 1..MaxProcs
Algorithms == {"least_connections", "round_robin"}

\* LoadBalancer(algorithm = alg)
LbInit(alg) ==
    /\ algorithm = alg
    /\ processors = <<>>
    /\ processor_loads = EmptyDict
    /\ processor_health = EmptyDict
    /\ round_robin_index = 0
    /\ flagged = {}

\* processor_id in self._processors
Registered(processor_id) == \E i \in 1..Len(processors) : processors[i] = processor_id

\* list.remove(x)
ListRemove(l, x) == SelectSeq(l, LAMBDA y : y /= x)

\* add_processor(processor_id)
AddProcessor(processor_id) ==
    /\ IF ~Registered(processor_id)
       THEN /\ processors' = Append(processors, processor_id)
            /\ processor_loads' = Put(processor_loads, processor_id, 0)
            /\ processor_health' = Put(processor_health, processor_id, TRUE)
       ELSE UNCHANGED <<processors, processor_loads, processor_health>>
    /\ last' = Call("add_processor", processor_id, "")
    /\ UNCHANGED <<algorithm, round_robin_index, flagged, now, nonLbVars>>

\* remove_processor(processor_id)
RemoveProcessor(processor_id) ==
    /\ IF Registered(processor_id)
       THEN /\ processors' = ListRemove(processors, processor_id)
            /\ processor_loads' = Del(processor_loads, processor_id)
            /\ processor_health' = Del(processor_health, processor_id)
       ELSE UNCHANGED <<processors, processor_loads, processor_health>>
    /\ last' = Call("remove_processor", processor_id, "")
    /\ UNCHANGED <<algorithm, round_robin_index, flagged, now, nonLbVars>>

\* self._processor_health[p]   (defaultdict(lambda: True))
Health(p) == IF p \in DOMAIN processor_health THEN processor_health[p] ELSE TRUE
\* self._processor_loads[p]    (defaultdict(int))
Load(p) == IF p \in DOMAIN processor_loads THEN processor_loads[p] ELSE 0

\* [p for p in self._processors if self._processor_health[p]]
HealthyProcessors == SelectSeq(processors, Health)

\* min(l, key = self._processor_loads): the first element of l with the least load
MinByLoad(l) ==
    LET i == CHOOSE i \in 1..Len(l) :
                 /\ \A j \in 1..Len(l) : Load(l[i]) <= Load(l[j])
                 /\ \A j \in 1..(i - 1) : Load(l[j]) > Load(l[i])
    IN l[i]

\* self._round_robin_index is used only modulo len(l), and len(l) <= MaxProcs: the
\* model keeps it modulo MaxProcs!, a multiple of every such length
RECURSIVE Factorial(_)
Factorial(n) == IF n <= 1 THEN 1 ELSE n * Factorial(n - 1)
IndexPeriod == Factorial(MaxProcs)

\* l[self._round_robin_index % len(l)]
RoundRobin(l) == l[(round_robin_index % Len(l)) + 1]

\* get_next_processor()
GetNextProcessor ==
    LET healthy_processors == HealthyProcessors
        processor == IF algorithm = "least_connections"
                     THEN MinByLoad(healthy_processors)
                     ELSE RoundRobin(healthy_processors)
    IN IF healthy_processors = <<>>
       THEN /\ last' = Call("get_next_processor", 0, "None")
            /\ UNCHANGED <<lbVars, now, nonLbVars>>
       ELSE /\ Load(processor) < MaxLoad
            /\ round_robin_index' = IF algorithm = "least_connections"
                                    THEN round_robin_index
                                    ELSE (round_robin_index + 1) % IndexPeriod
            /\ processor_loads' = Put(processor_loads, processor, Load(processor) + 1)
            /\ last' = Call("get_next_processor", processor, "processor")
            /\ UNCHANGED <<algorithm, processors, processor_health, flagged, now,
                           nonLbVars>>

\* release_processor(processor_id)
ReleaseProcessor(processor_id) ==
    /\ processor_loads' =
         IF processor_id \in DOMAIN processor_loads /\ processor_loads[processor_id] > 0
         THEN Put(processor_loads, processor_id, processor_loads[processor_id] - 1)
         ELSE processor_loads
    /\ last' = Call("release_processor", processor_id, "")
    /\ UNCHANGED <<algorithm, processors, processor_health, round_robin_index, flagged,
                   now, nonLbVars>>

\* mark_processor_unhealthy(processor_id)
MarkProcessorUnhealthy(processor_id) ==
    /\ processor_health' = Put(processor_health, processor_id, FALSE)
    /\ flagged' = flagged \cup {processor_id}
    /\ last' = Call("mark_processor_unhealthy", processor_id, "")
    /\ UNCHANGED <<algorithm, processors, processor_loads, round_robin_index, now,
                   nonLbVars>>

\* mark_processor_healthy(processor_id)
MarkProcessorHealthy(processor_id) ==
    /\ processor_health' = Put(processor_health, processor_id, TRUE)
    /\ flagged' = flagged \ {processor_id}
    /\ last' = Call("mark_processor_healthy", processor_id, "")
    /\ UNCHANGED <<algorithm, processors, processor_loads, round_robin_index, now,
                   nonLbVars>>

\* =========================================================== AdaptiveBuffer
\* adaptive_buffer.py, class AdaptiveBuffer, driven by adaptive_server.py, class
\* AdaptiveTranscriptionServer, whose _on_correction is the buffer's callback.
\*
\* Suspension points of the correction loop: asyncio.sleep(0.1), asyncio.sleep(1)
\* and `await self.callback(correction)` (the send on the websocket).  The
\* coroutines _perform_correction, _correct_tokens, _correct_token_with_context
\* and _apply_corrections contain no other await, so a pass runs without
\* interruption from the wake-up of the loop to its first callback.
\*
\* Time.  time.time() enters the code only through differences, and every
\* duration of the code is a multiple of 0.1 s: the model counts ticks of 0.1 s
\* and keeps the differences themselves (last_correction_age, since_pass), each
\* up to MaxAge ("MaxAge or more").
\*
\* Tokens.  An ASRToken is [text, probability]; start and end are carried along
\* and read by no decision of these classes.  Every list of the buffer holds
\* the same token objects as instant_buffer, so rewriting the text of the
\* objects of instant_buffer rewrites them in every list.
LOOP_SLEEP == 1          \* await asyncio.sleep(0.1)
ERROR_SLEEP == 10        \* await asyncio.sleep(1)
CONTEXT_RADIUS == 10     \* token_index - 10, token_index + 10
NoText == 0              \* text = None
WORD == 1                \* a word the transcription produced
REWORD == 2              \* the text the corrector replaces WORD by
EMPTY == 3               \* text = ''
Missing == -1            \* a key a token dict does not have

Token(text, probability) == [text |-> text, probability |-> probability]
\* token lists passed to add_tokens; probabilities in tenths
Batches == {<<>>,
            <<Token(WORD, 7)>>,
            <<Token(NoText, 7)>>,
            <<Token(WORD, 5), Token(WORD, 0)>>,
            <<Token(WORD, 7), Token(NoText, 7), Token(WORD, 7)>>}
\* lists of token dicts passed to process_tokens
DictBatches == {<<Token(WORD, Missing)>>, <<Token(Missing, 7)>>}
\* constructor arguments
ContextLimits == {0, 1}              \* max_context_tokens
Intervals == {5, MaxAge}             \* correction_interval: 0.5 s, MaxAge ticks
Thresholds == {7}                    \* confidence_threshold: 0.7

\* AdaptiveTranscriptionServer(websocket, config), which constructs
\* AdaptiveBuffer(max_context_tokens = mc, correction_interval = ci,
\*                confidence_threshold = ct, callback = self._on_correction)
BufInit(mc, ci, ct) ==
    /\ max_context_tokens = mc
    /\ correction_interval = ci
    /\ confidence_threshold = ct
    /\ instant_buffer = <<>>
    /\ context_buffer = <<>>
    /\ correction_queue = <<>>
    /\ last_correction_age = MaxAge      \* last_correction_time = 0.0
    /\ correction_task = "none"
    /\ cancel_requested = FALSE
    /\ is_running = FALSE
    /\ srv_running = FALSE
    /\ total_corrections = 0
    /\ correction_history = <<>>
    /\ wake_in = 0
    /\ to_apply = <<>>
    /\ since_pass = MaxAge
    /\ live_loops = 0
    /\ stop_call = "none"

\* a call with its argument and the value it returned
CallIO(op, arg, ret) == [op |-> op, id |-> 0, res |-> "", arg |-> arg, ret |-> ret]

\* l[-n:]
LastN(l, n) ==
    IF n = 0 THEN l          \* l[-0:] is l[0:]
    ELSE SubSeq(l, (IF Len(l) > n THEN Len(l) - n + 1 ELSE 1), Len(l))

\* if len(self.context_buffer) > self.max_context_tokens:
\*     self.context_buffer = self.context_buffer[-self.max_context_tokens:]
TrimContext(l) == IF Len(l) > max_context_tokens THEN LastN(l, max_context_tokens) ELSE l

\* tokens.copy()
Copy_AllButFirst(tokens) == IF tokens = <<>> THEN tokens ELSE Tail(tokens)
Copy(tokens) == tokens

\* the state change of add_tokens(tokens)
Extend(tokens) ==
    IF tokens = <<>>
    THEN UNCHANGED <<instant_buffer, context_buffer, correction_queue>>
    ELSE /\ instant_buffer' = instant_buffer \o tokens
         /\ context_buffer' = TrimContext(context_buffer \o tokens)
         /\ correction_queue' = correction_queue \o tokens

bufFrame == <<max_context_tokens, correction_interval, confidence_threshold>>
loopFrame == <<last_correction_age, correction_task, cancel_requested, is_running,
               srv_running, total_corrections, correction_history, wake_in, to_apply,
               since_pass, live_loops, stop_call>>

\* AdaptiveBuffer.add_tokens(tokens)
AddTokens(tokens) ==
    /\ Len(instant_buffer) + Len(tokens) <= MaxTokens
    /\ Extend(tokens)
    /\ last' = CallIO("add_tokens", tokens, IF tokens = <<>> THEN <<>> ELSE Copy(tokens))
    /\ UNCHANGED <<bufFrame, loopFrame, now, nonBufVars>>

\* ASRToken(text = token.get('text', ''), probability = token.get('probability', 0.0))
ToASRToken(d) ==
    Token(IF d.text = Missing THEN EMPTY ELSE d.text,
          IF d.probability = Missing THEN 0 ELSE d.probability)

\* AdaptiveTranscriptionServer.process_tokens(tokens), tokens a list of dicts
ProcessTokens(tokens) ==
    LET asr_tokens == [i \in 1..Len(tokens) |-> ToASRToken(tokens[i])]
    IN IF ~srv_running
       THEN /\ last' = CallIO("process_tokens", tokens, tokens)
            /\ UNCHANGED <<bufVars, now, nonBufVars>>
       ELSE /\ Len(instant_buffer) + Len(tokens) <= MaxTokens
            /\ Extend(asr_tokens)
            /\ last' = CallIO("process_tokens", tokens, Copy(asr_tokens))
            /\ UNCHANGED <<bufFrame, loopFrame, now, nonBufVars>>

\* ------------------------------------------------ AdaptiveBuffer: start, stop
\* start and stop are called by the connection handler (adaptive_basic_server.py,
\* websocket_endpoint), one call at a time.
Alive(task) == task \in {"pending", "sleep", "pause", "callback"}

\* if self.is_running: return
AlreadyRunning_Never == FALSE
AlreadyRunning == is_running

\* AdaptiveTranscriptionServer.start(), which awaits AdaptiveBuffer.start()
BufStart ==
    /\ stop_call /= "awaiting"
    /\ srv_running' = TRUE
    /\ IF AlreadyRunning
       THEN UNCHANGED <<is_running, correction_task, cancel_requested, wake_in, to_apply,
                        since_pass, live_loops>>
       ELSE /\ is_running' = TRUE
            \* self.correction_task = asyncio.create_task(self._correction_loop())
            /\ correction_task' = "pending"
            /\ cancel_requested' = FALSE
            /\ wake_in' = 0
            /\ to_apply' = <<>>
            /\ since_pass' = MaxAge
            /\ live_loops' = live_loops + 1
    /\ stop_call' = "none"
    /\ last' = Call("start", 0, "")
    /\ UNCHANGED <<bufFrame, instant_buffer, context_buffer, correction_queue,
                   last_correction_age, total_corrections, correction_history, now,
                   nonBufVars>>

\* `await self.correction_task` suspends unless the task is done
MustAwait_Never(task) == FALSE
MustAwait(task) == Alive(task)

\* AdaptiveTranscriptionServer.stop(), which awaits AdaptiveBuffer.stop(), up to
\* its return or its suspension in `await self.correction_task`
BufStop ==
    /\ stop_call /= "awaiting"
    /\ srv_running' = FALSE
    /\ is_running' = FALSE
    \* if self.correction_task: self.correction_task.cancel()
    /\ cancel_requested' = (cancel_requested \/ Alive(correction_task))
    /\ stop_call' = IF MustAwait(correction_task) THEN "awaiting" ELSE "returned"
    /\ last' = Call("stop", 0, IF MustAwait(correction_task) THEN "awaiting" ELSE "returned")
    /\ UNCHANGED <<bufFrame, instant_buffer, context_buffer, correction_queue,
                   last_correction_age, correction_task, total_corrections,
                   correction_history, wake_in, to_apply, since_pass, live_loops, now,
                   nonBufVars>>

\* stop() resumes when the task it awaits is done, and returns
BufStopReturn ==
    /\ stop_call = "awaiting"
    /\ correction_task = "done"
    /\ stop_call' = "returned"
    /\ last' = Call("stop", 0, "awaited")
    /\ UNCHANGED <<bufFrame, instant_buffer, context_buffer, correction_queue,
                   last_correction_age, correction_task, cancel_requested, is_running,
                   srv_running, total_corrections, correction_history, wake_in, to_apply,
                   since_pass, live_loops, now, nonBufVars>>

\* ------------------------------------------- AdaptiveBuffer: correction loop
Max(a, b) == IF a >= b THEN a ELSE b

\* if token.probability and token.probability < self.confidence_threshold: continue
\* (a probability of 0.0 is falsy)
Skipped(token) == token.probability /= 0 /\ token.probability < confidence_threshold

\* next(i for i, t in enumerate(self.context_buffer) if t == token), 0 for StopIteration
TokenIndex(token) ==
    IF \E i \in 1..Len(context_buffer) : context_buffer[i] = token
    THEN CHOOSE i \in 1..Len(context_buffer) :
             /\ context_buffer[i] = token
             /\ \A j \in 1..(i - 1) : context_buffer[j] /= token
    ELSE 0

\* _get_context_for_token: the tokens whose texts are joined
ContextTokens(token) ==
    LET i == TokenIndex(token)
    IN IF i = 0 THEN <<>>
       ELSE SubSeq(context_buffer, Max(1, i - CONTEXT_RADIUS),
                   Min(Len(context_buffer), i + CONTEXT_RADIUS - 1))

\* " ".join(t.text for t in context_tokens) raises TypeError on a text None, and
\* text.endswith / `text not in context_lower` raise on a token text None
CorrectorRaises(token) ==
    \/ token.text = NoText
    \/ \E i \in 1..Len(ContextTokens(token)) : ContextTokens(token)[i].text = NoText

\* _correct_token_with_context may return a text other than WORD for WORD; it
\* returns '' for '' and the model lets it keep a text it produced
MayChange(token) == token.text = WORD

\* CorrectionResult(original_text, corrected_text, confidence = probability or 0.0)
Correction(token) ==
    [original_text |-> token.text, corrected_text |-> REWORD,
     confidence |-> token.probability]

\* _update_tokens_in_buffers on one list
Rewrite(l, c) ==
    [i \in 1..Len(l) |-> IF l[i].text = c.original_text
                         THEN [l[i] EXCEPT !.text = c.corrected_text]
                         ELSE l[i]]

\* _apply_corrections, one round of its loop up to `await self.callback(correction)`
Apply(c, queue) ==
    /\ context_buffer' = Rewrite(context_buffer, c)
    /\ instant_buffer' = Rewrite(instant_buffer, c)
    /\ correction_queue' = Rewrite(queue, c)
    /\ correction_history' = Append(correction_history, c)

\* the loop task ends
LoopEnds ==
    /\ correction_task' = "done"
    /\ since_pass' = MaxAge
    /\ cancel_requested' = FALSE
    /\ wake_in' = 0
    /\ to_apply' = <<>>
    /\ live_loops' = live_loops - 1

\* await asyncio.sleep(d)
LoopSleeps(pc, d) ==
    /\ correction_task' = pc
    /\ wake_in' = d
    /\ to_apply' = <<>>
    /\ UNCHANGED <<cancel_requested, live_loops>>

Indices(n) == [i \in 1..n |-> i]

\* except Exception as e: logger.error(...); await asyncio.sleep(1)
\* the position of the loop after an exception of the pass
AfterError_LoopDies == "done"
AfterError == "pause"

\* _perform_correction up to its first suspension: the queue is drained, every
\* token is evaluated by _correct_tokens until one raises, and the first
\* correction found is applied and handed to the callback
Pass ==
    LET drained == correction_queue
        n == Len(drained)
        failing == {i \in 1..n : ~Skipped(drained[i]) /\ CorrectorRaises(drained[i])}
        k == IF failing = {} THEN n + 1
             ELSE CHOOSE i \in failing : \A j \in failing : i <= j
        evaluated == SelectSeq(Indices(n), LAMBDA i : i <= k /\ ~Skipped(drained[i]))
        candidates == [j \in 1..Len(evaluated) |-> drained[evaluated[j]]]
    IN \E changed \in SUBSET {i \in 1..n : i < k /\ ~Skipped(drained[i])
                                           /\ MayChange(drained[i])} :
         LET hits == SelectSeq(Indices(n), LAMBDA i : i \in changed)
             found == [j \in 1..Len(hits) |-> Correction(drained[hits[j]])]
             failed == k <= n
         IN /\ total_corrections' = total_corrections + Len(found)
            /\ since_pass' = 0
            /\ last' = [op |-> "pass", id |-> 0,
                        res |-> IF failed THEN "failed" ELSE "ok",
                        drained |-> drained, candidates |-> candidates, found |-> found]
            /\ IF failed
               THEN /\ correction_queue' = <<>>
                    /\ LoopSleeps(AfterError, ERROR_SLEEP)
                    /\ UNCHANGED <<instant_buffer, context_buffer, correction_history,
                                   last_correction_age>>
               ELSE IF found = <<>>
               THEN /\ correction_queue' = <<>>
                    /\ last_correction_age' = 0
                    /\ LoopSleeps("sleep", LOOP_SLEEP)
                    /\ UNCHANGED <<instant_buffer, context_buffer, correction_history>>
               ELSE /\ Apply(Head(found), <<>>)
                    /\ correction_task' = "callback"
                    /\ to_apply' = Tail(found)
                    /\ UNCHANGED <<last_correction_age, wake_in, cancel_requested,
                                   live_loops>>

\* one turn of `while self.is_running:` from the start of the task or the end of a
\* sleep to the next suspension
LoopIteration ==
    /\ ~cancel_requested
    /\ \/ correction_task = "pending"
       \/ correction_task \in {"sleep", "pause"} /\ wake_in = 0
    /\ IF ~is_running
       THEN /\ LoopEnds
            /\ last' = Call("loop", 0, "exit")
            /\ UNCHANGED <<instant_buffer, context_buffer, correction_queue,
                           last_correction_age, total_corrections, correction_history>>
       ELSE IF last_correction_age >= correction_interval /\ correction_queue /= <<>>
       THEN Pass
       ELSE /\ LoopSleeps("sleep", LOOP_SLEEP)
            /\ last' = Call("loop", 0, "idle")
            /\ UNCHANGED <<instant_buffer, context_buffer, correction_queue,
                           last_correction_age, total_corrections, correction_history,
                           since_pass>>
    /\ UNCHANGED <<bufFrame, is_running, srv_running, stop_call, now, nonBufVars>>

CallbackOutcomes == {"sent", "raised"}

\* the callback returns or raises (_apply_corrections logs what it raises);
\* _apply_corrections goes on to the next correction, or the pass ends with
\* self.last_correction_time = current_time and the loop sleeps
CallbackReturn(outcome) ==
    /\ correction_task = "callback"
    /\ ~cancel_requested
    /\ IF to_apply /= <<>>
       THEN /\ Apply(Head(to_apply), correction_queue)
            /\ to_apply' = Tail(to_apply)
            /\ UNCHANGED <<last_correction_age, correction_task, wake_in,
                           cancel_requested, live_loops>>
       ELSE /\ last_correction_age' = since_pass
            /\ LoopSleeps("sleep", LOOP_SLEEP)
            /\ UNCHANGED <<instant_buffer, context_buffer, correction_queue,
                           correction_history>>
    /\ last' = Call("callback", 0, outcome)
    /\ UNCHANGED <<bufFrame, is_running, srv_running, total_corrections, since_pass,
                   stop_call, now, nonBufVars>>

\* the CancelledError of correction_task.cancel() is raised at the suspension
\* point of the loop (or before the first step of the task): `break` in the
\* sleep of the try block, propagation out of the task everywhere else
LoopCancelled ==
    /\ Alive(correction_task)
    /\ cancel_requested
    /\ LoopEnds
    /\ last' = Call("loop", 0, "cancelled")
    /\ UNCHANGED <<bufFrame, instant_buffer, context_buffer, correction_queue,
                   last_correction_age, is_running, srv_running, total_corrections,
                   correction_history, stop_call, now, nonBufVars>>

\* the loop task is ready to run: the event loop runs it before 0.1 s has passed
LoopReady ==
    /\ Alive(correction_task)
    /\ \/ cancel_requested
       \/ correction_task = "pending"
       \/ correction_task \in {"sleep", "pause"} /\ wake_in = 0

\* 0.1 s passes
BufTick ==
    /\ ~LoopReady
    /\ wake_in > 0 \/ last_correction_age < MaxAge \/ since_pass < MaxAge
    /\ wake_in' = Max(0, wake_in - 1)
    /\ last_correction_age' = Min(MaxAge, last_correction_age + 1)
    /\ since_pass' = Min(MaxAge, since_pass + 1)
    /\ last' = Internal
    /\ UNCHANGED <<bufFrame, instant_buffer, context_buffer, correction_queue,
                   correction_task, cancel_requested, is_running, srv_running,
                   total_corrections, correction_history, to_apply, live_loops,
                   stop_call, now, nonBufVars>>

\* ==================================================== AdaptiveCompressor
\* class CompressionLevel: the value is the zlib level
NONE == 0
FAST == 1
BALANCED == 6
BEST == 9
CompressionLevel == {NONE, FAST, BALANCED, BEST}

\* class MessageType
TRANSCRIPTION_RESULT == 1
AUDIO_DATA == 2
STATUS_UPDATE == 3
ERROR_MESSAGE == 4
HEARTBEAT == 5
BATCH_UPDATE == 6
MessageType == {TRANSCRIPTION_RESULT, AUDIO_DATA, STATUS_UPDATE, ERROR_MESSAGE,
                HEARTBEAT, BATCH_UPDATE}

\* self._adjustment_interval = 30.0, in clock ticks of 15 s
adjustment_interval == 2
\* `if len(self._recent_ratios) < 10: return`
MIN_SAMPLES == 10
\* `if avg_ratio > 0.9` and `elif avg_ratio < 0.3`, in tenths
POOR_RATIO == 9
EXCELLENT_RATIO == 3

\* A message is a JSON object; the model keeps the characters of its members.
\* Bytes are numbers 0..255.
LBRACE == 123
RBRACE == 125
CHAR_A == 97
CHAR_B == 98
Repeat(c, n) == [i \in 1..n |-> c]

\* the value a function returns when it raises
Raised == <<-1>>

\* json.dumps(message, ensure_ascii=False, separators=(',', ':')).encode('utf-8')
Dumps(message) == <<LBRACE>> \o message \o <<RBRACE>>

\* json.loads(data.decode('utf-8'))
Loads(data) ==
    IF Len(data) >= 2 /\ data[1] = LBRACE /\ data[Len(data)] = RBRACE
    THEN SubSeq(data, 2, Len(data) - 1)
    ELSE Raised

\* zlib, a lossless byte compressor outside the repository, stands here as a
\* run-length coder: a stream header that records the level, then one
\* (count, byte) pair for every run of equal bytes.
RECURSIVE RunEnd(_, _)
RunEnd(data, i) ==
    IF i < Len(data) /\ data[i + 1] = data[1] THEN RunEnd(data, i + 1) ELSE i

RECURSIVE Deflate(_)
Deflate(data) ==
    IF data = <<>> THEN <<>>
    ELSE LET n == RunEnd(data, 1)
         IN <<n, data[1]>> \o Deflate(SubSeq(data, n + 1, Len(data)))

RECURSIVE Inflate(_)
Inflate(stream) ==
    IF Len(stream) < 2 THEN <<>>
    ELSE Repeat(stream[2], stream[1]) \o Inflate(SubSeq(stream, 3, Len(stream)))

\* zlib.compress(data, level)
ZlibCompress(data, level) == <<level>> \o Deflate(data)

\* zlib.decompress(data)
ZlibDecompress(data) ==
    IF Len(data) >= 1 /\ data[1] \in CompressionLevel /\ Len(data) % 2 = 1
    THEN Inflate(Tail(data))
    ELSE Raised

\* struct.pack('>I', n): four bytes, most significant first
BigEndian4_Little(n) ==
    <<n % 256, (n \div 256) % 256, (n \div 65536) % 256, (n \div 16777216) % 256>>
BigEndian4(n) ==
    <<(n \div 16777216) % 256, (n \div 65536) % 256, (n \div 256) % 256, n % 256>>

\* struct.unpack('>I', b)
FromBigEndian4(b) == ((b[1] * 256 + b[2]) * 256 + b[3]) * 256 + b[4]

\* _create_packet(message_type, data, compressed)
CreatePacket(message_type, data, compressed) ==
    <<message_type, IF compressed THEN 1 ELSE 0>> \o BigEndian4(Len(data)) \o data

\* _parse_packet(packet) raises ValueError
InvalidPacket == [message_type |-> 0, is_compressed |-> FALSE, data |-> Raised]

\* _parse_packet(packet)
ParsePacket(packet) ==
    IF Len(packet) < 6 THEN InvalidPacket
    ELSE LET msg_type_value == packet[1]
             flags == packet[2]
             data_length == FromBigEndian4(SubSeq(packet, 3, 6))
             data == SubSeq(packet, 7, Min(6 + data_length, Len(packet)))
         IN IF Len(data) /= data_length THEN InvalidPacket
            ELSE [message_type |-> IF msg_type_value \in MessageType
                                   THEN msg_type_value ELSE TRANSCRIPTION_RESULT,
                  is_compressed |-> flags % 2 = 1,
                  data |-> data]

\* decompress_message(packet)
DecompressMessage(packet) ==
    LET parsed == ParsePacket(packet)
    IN IF parsed = InvalidPacket THEN Raised
       ELSE LET decompressed_data == IF parsed.is_compressed
                                     THEN ZlibDecompress(parsed.data)
                                     ELSE parsed.data
            IN IF decompressed_data = Raised THEN Raised
               ELSE Loads(decompressed_data)

\* AdaptiveCompressor(min_compress_size = mcs, compression_threshold_ratio = ctr / 10,
\*                    performance_window = pw)
CompInit(mcs, ctr, pw) ==
    /\ min_compress_size = mcs
    /\ compression_threshold_ratio = ctr
    /\ performance_window = pw
    /\ compression_levels = [t \in MessageType |->
            CASE t = TRANSCRIPTION_RESULT -> BALANCED
              [] t = AUDIO_DATA -> FAST
              [] t = STATUS_UPDATE -> FAST
              [] t = ERROR_MESSAGE -> NONE
              [] t = HEARTBEAT -> NONE
              [] t = BATCH_UPDATE -> BEST]
    /\ recent_ratios = <<>>
    /\ adjustment_age = 0

\* `compression_ratio > self.compression_threshold_ratio`
NotEffective_Never(compressed_size, original_size) == FALSE
NotEffective(compressed_size, original_size) ==
    compressed_size * 10 > compression_threshold_ratio * original_size

\* which branch of compress_message a message takes
PathOf(message, message_type) ==
    LET original_bytes == Dumps(message)
        original_size == Len(original_bytes)
        compression_level == compression_levels[message_type]
    IN IF original_size < min_compress_size THEN "small"
       ELSE IF compression_level = NONE THEN "none"
       ELSE IF NotEffective(Len(ZlibCompress(original_bytes, compression_level)),
                            original_size) THEN "ineffective"
       ELSE "compressed"

\* the packet compress_message(message, message_type) returns
Packet(message, message_type) ==
    LET original_bytes == Dumps(message)
        path == PathOf(message, message_type)
    IN CASE path = "small" ->
              CreatePacket(TRANSCRIPTION_RESULT, original_bytes, FALSE)
         [] path \in {"none", "ineffective"} ->
              CreatePacket(message_type, original_bytes, FALSE)
         [] path = "compressed" ->
              CreatePacket(message_type,
                           ZlibCompress(original_bytes, compression_levels[message_type]),
                           TRUE)

RECURSIVE Gcd(_, _)
Gcd(a, b) == IF b = 0 THEN a ELSE Gcd(b, a % b)
Lcm(a, b) == (a \div Gcd(a, b)) * b

RECURSIVE CommonDenominator(_)
CommonDenominator(ratios) ==
    IF ratios = <<>> THEN 1
    ELSE Lcm(Head(ratios)[2], CommonDenominator(Tail(ratios)))

\* sum(self._recent_ratios), as a number of d-ths
RECURSIVE SumRatios(_, _)
SumRatios(ratios, d) ==
    IF ratios = <<>> THEN 0
    ELSE Head(ratios)[1] * (d \div Head(ratios)[2]) + SumRatios(Tail(ratios), d)

\* avg_ratio > tenths / 10, for avg_ratio = sum(ratios) / len(ratios)
AvgAbove(ratios, tenths) ==
    LET d == CommonDenominator(ratios)
    IN 10 * SumRatios(ratios, d) > tenths * Len(ratios) * d

\* avg_ratio < tenths / 10
AvgBelow(ratios, tenths) ==
    LET d == CommonDenominator(ratios)
    IN 10 * SumRatios(ratios, d) < tenths * Len(ratios) * d

\* _reduce_compression_levels()
ReduceCompressionLevels(levels) ==
    [t \in MessageType |-> CASE levels[t] = BEST -> BALANCED
                             [] levels[t] = BALANCED -> FAST
                             [] OTHER -> levels[t]]

\* _increase_compression_levels()
IncreaseCompressionLevels(levels) ==
    [t \in MessageType |-> CASE levels[t] = FAST -> BALANCED
                             [] levels[t] = BALANCED -> BEST
                             [] OTHER -> levels[t]]

\* _maybe_adjust_compression(), called with the ratios after the append
MaybeAdjustCompression(ratios) ==
    IF adjustment_age < adjustment_interval \/ Len(ratios) < MIN_SAMPLES
    THEN UNCHANGED <<compression_levels, adjustment_age>>
    ELSE /\ compression_levels' =
               IF AvgAbove(ratios, POOR_RATIO)
               THEN ReduceCompressionLevels(compression_levels)
               ELSE IF AvgBelow(ratios, EXCELLENT_RATIO)
               THEN IncreaseCompressionLevels(compression_levels)
               ELSE compression_levels
         /\ adjustment_age' = 0

\* what a call of compress_message leaves in `last`
Compressed(message, message_type, packet, path) ==
    [op |-> "compress_message", id |-> message_type, res |-> packet,
     message |-> message, path |-> path]

\* compress_message(message, message_type); self._auto_adjust is True.
\* The counters of self.stats, read by get_stats() alone, are not kept.
CompressMessage(message, message_type) ==
    LET original_bytes == Dumps(message)
        original_size == Len(original_bytes)
        path == PathOf(message, message_type)
        compressed_size ==
            Len(ZlibCompress(original_bytes, compression_levels[message_type]))
        appended == Append(recent_ratios, <<compressed_size, original_size>>)
        ratios == IF Len(appended) > performance_window THEN Tail(appended)
                  ELSE appended
    IN /\ last' = Compressed(message, message_type, Packet(message, message_type), path)
       /\ IF path = "compressed"
          THEN /\ recent_ratios' = ratios
               /\ MaybeAdjustCompression(ratios)
          ELSE UNCHANGED <<recent_ratios, compression_levels, adjustment_age>>
       /\ UNCHANGED <<min_compress_size, compression_threshold_ratio,
                      performance_window, now, nonCompVars>>

\* time passes; an age beyond the adjustment interval is not told apart
CompElapse ==
    /\ adjustment_age < adjustment_interval
    /\ adjustment_age' = adjustment_age + 1
    /\ last' = Internal
    /\ UNCHANGED <<min_compress_size, compression_threshold_ratio, performance_window,
                   compression_levels, recent_ratios, now, nonCompVars>>

\* ======================== MessageBatcher and OptimizedWebSocketHandler
\* The handler is OptimizedWebSocketHandler(websocket, enable_compression=False,
\* enable_batching=True): it passes messages to the transport as JSON text and
\* its batcher's flush callback is _send_compressed_message.  The body of
\* `async with self._batch_lock` awaits the flush callback, so the lock is held
\* across a suspension and is part of the model: `calls` lists the calls that
\* hold or await it, first come first served.

\* a message: the n-th one passed to send_message, an empty JSON object
Message(n) == [seq |-> n, body |-> <<>>]

\* len(json.dumps(message, separators=(',', ':')))
MsgSize(message) == Len(Dumps(message.body))

\* the seq numbers of a list of messages
Seqs(messages) == [i \in 1..Len(messages) |-> messages[i].seq]

\* MessageBatcher(max_batch_size = mbs, max_batch_bytes = mbb, batch_timeout_ms = bt
\* ticks) inside a handler that has sent nothing
BatchInit(mbs, mbb, bt) ==
    /\ max_batch_size = mbs
    /\ max_batch_bytes = mbb
    /\ batch_timeout = bt
    /\ batch_queue = <<>>
    /\ batch_size_bytes = 0
    /\ batch_timer = "none"
    /\ timer_left = 0
    /\ flush_tasks = 0
    /\ calls = <<>>
    /\ transport = <<>>
    /\ sent_count = 0
    /\ bypassed = 0
    /\ pending_age = 0

batchConfig == <<max_batch_size, max_batch_bytes, batch_timeout>>

\* what a step of the batcher or the handler leaves in `last`
BatchCall(op, id, res, envelope, cause) ==
    [op |-> op, id |-> id, res |-> res, envelope |-> envelope, cause |-> cause]

\* `len(self._batch_queue) >= self.max_batch_size or
\*  self._batch_size_bytes + msg_size > self.max_batch_bytes`
OverLimits_Late(msg_size) ==
    \/ Len(batch_queue) > max_batch_size
    \/ batch_size_bytes + msg_size > max_batch_bytes
OverLimits(msg_size) ==
    \/ Len(batch_queue) >= max_batch_size
    \/ batch_size_bytes + msg_size > max_batch_bytes

\* which limit a message of that size exceeds
LimitCause(msg_size) ==
    IF Len(batch_queue) >= max_batch_size THEN "count" ELSE "bytes"

\* _flush_batch() with messages pending, up to `await self._flush_callback(...)`:
\* the timer is cancelled, the batch is cleared and its envelope is passed to
\* _send_compressed_message, which passes it to the transport
Emit_KeepQueue ==
    /\ batch_timer' = "none"
    /\ timer_left' = 0
    /\ transport' = transport \o Seqs(batch_queue)
    /\ batch_queue' = batch_queue
    /\ batch_size_bytes' = 0
    /\ pending_age' = 0
Emit ==
    /\ batch_timer' = "none"
    /\ timer_left' = 0
    /\ transport' = transport \o Seqs(batch_queue)
    /\ batch_queue' = <<>>
    /\ batch_size_bytes' = 0
    /\ pending_age' = 0

\* `if len(self._batch_queue) == 1: self._set_batch_timer()`
FirstMessage_Never(queue) == FALSE
FirstMessage(queue) == Len(queue) = 1

\* add_message from the append to the end
Add(message) ==
    LET queue == Append(batch_queue, message)
    IN /\ batch_queue' = queue
       /\ batch_size_bytes' = batch_size_bytes + MsgSize(message)
       /\ IF FirstMessage(queue)
          THEN /\ batch_timer' = "armed"
               /\ timer_left' = batch_timeout
               /\ pending_age' = 0
          ELSE UNCHANGED <<batch_timer, timer_left, pending_age>>
       /\ UNCHANGED transport

batchFrame == <<batchConfig, flush_tasks, now, nonBatchVars>>

\* a call that has the lock runs until it returns or awaits the flush callback;
\* `rest` are the calls waiting behind it
Run(c, rest) ==
    IF c.op = "add_message"
    THEN IF OverLimits(MsgSize(c.message)) /\ batch_queue /= <<>>
         THEN /\ Emit
              /\ calls' = <<[c EXCEPT !.pc = "flushing"]>> \o rest
              /\ last' = BatchCall("add_message", c.message.seq, "awaiting",
                                   Seqs(batch_queue), LimitCause(MsgSize(c.message)))
         ELSE /\ Add(c.message)
              /\ calls' = rest
              /\ last' = BatchCall("add_message", c.message.seq, "True", <<>>, "")
    ELSE IF batch_queue /= <<>>
         THEN /\ Emit
              /\ calls' = <<[c EXCEPT !.pc = "flushing"]>> \o rest
              /\ last' = BatchCall("flush_now", 0, "awaiting", Seqs(batch_queue),
                                   "flush_now")
         ELSE /\ calls' = rest
              /\ last' = BatchCall("flush_now", 0, "returned", <<>>, "")
              /\ UNCHANGED <<batch_queue, batch_size_bytes, batch_timer, timer_left,
                             transport, pending_age>>

\* a call arrives: it takes the lock when no call holds or awaits it
Arrive(c) ==
    /\ Len(calls) < MaxCalls
    /\ IF calls = <<>>
       THEN Run(c, <<>>)
       ELSE /\ calls' = Append(calls, c)
            /\ last' = BatchCall(c.op, c.message.seq, "waiting", <<>>, "")
            /\ UNCHANGED <<batch_queue, batch_size_bytes, batch_timer, timer_left,
                           transport, pending_age>>

\* `message_type in [MessageType.ERROR_MESSAGE, MessageType.HEARTBEAT]`
Critical == {ERROR_MESSAGE, HEARTBEAT}

\* send_message(message, message_type, force_immediate)
SendMessage(message_type, force_immediate) ==
    /\ sent_count < MaxMessages
    /\ sent_count' = sent_count + 1
    /\ IF force_immediate \/ message_type \in Critical
       THEN /\ bypassed < MaxBypassed
            /\ bypassed' = bypassed + 1
            /\ transport' = Append(transport, sent_count + 1)
            /\ last' = BatchCall("send_message", sent_count + 1, "sent", <<>>, "")
            /\ UNCHANGED <<batch_queue, batch_size_bytes, batch_timer, timer_left,
                           calls, pending_age>>
       ELSE /\ Arrive([op |-> "add_message", message |-> Message(sent_count + 1),
                       pc |-> "waiting"])
            /\ UNCHANGED bypassed
    /\ UNCHANGED batchFrame

\* flush_now(), also called by close()
FlushNow ==
    /\ Arrive([op |-> "flush_now", message |-> Message(0), pc |-> "waiting"])
    /\ UNCHANGED <<sent_count, bypassed, batchFrame>>

\* the call at the head of the lock's waiters is woken and takes the lock
CallResumes ==
    /\ calls /= <<>>
    /\ Head(calls).pc = "waiting"
    /\ Run(Head(calls), Tail(calls))
    /\ UNCHANGED <<sent_count, bypassed, batchFrame>>

\* the flush callback awaited under the lock returns, or raises and is logged
FlushReturns ==
    /\ calls /= <<>>
    /\ Head(calls).pc = "flushing"
    /\ calls' = Tail(calls)
    /\ IF Head(calls).op = "add_message"
       THEN /\ Add(Head(calls).message)
            /\ last' = BatchCall("add_message", Head(calls).message.seq, "True",
                                 <<>>, "")
       ELSE /\ last' = BatchCall("flush_now", 0, "returned", <<>>, "")
            /\ UNCHANGED <<batch_queue, batch_size_bytes, batch_timer, timer_left,
                           transport, pending_age>>
    /\ UNCHANGED <<sent_count, bypassed, batchFrame>>

\* the timer is due: `lambda: asyncio.create_task(self._flush_batch())`
TimerFires ==
    /\ batch_timer = "armed"
    /\ timer_left = 0
    /\ batch_timer' = "spent"
    /\ flush_tasks' = flush_tasks + 1
    /\ last' = BatchCall("timer", 0, "", <<>>, "")
    /\ UNCHANGED <<batchConfig, batch_queue, batch_size_bytes, timer_left, calls,
                   transport, sent_count, bypassed, pending_age, now, nonBatchVars>>

\* a task of the timer runs _flush_batch(), without the lock
FlushTask ==
    /\ flush_tasks > 0
    /\ flush_tasks' = flush_tasks - 1
    /\ IF batch_queue /= <<>>
       THEN /\ Emit
            /\ last' = BatchCall("flush_task", 0, "awaiting", Seqs(batch_queue), "timer")
       ELSE /\ last' = BatchCall("flush_task", 0, "returned", <<>>, "")
            /\ UNCHANGED <<batch_queue, batch_size_bytes, batch_timer, timer_left,
                           transport, pending_age>>
    /\ UNCHANGED <<batchConfig, calls, sent_count, bypassed, now, nonBatchVars>>

\* something the event loop runs before it lets time pass
BatchReady ==
    \/ flush_tasks > 0
    \/ calls /= <<>> /\ Head(calls).pc = "waiting"
    \/ batch_timer = "armed" /\ timer_left = 0

\* time passes; an age beyond batch_timeout is not told apart
BatchTick ==
    /\ ~BatchReady
    /\ batch_timer = "armed" \/ (batch_queue /= <<>> /\ pending_age <= batch_timeout)
    /\ timer_left' = IF batch_timer = "armed" THEN timer_left - 1 ELSE timer_left
    /\ pending_age' = IF batch_queue /= <<>> /\ pending_age <= batch_timeout
                      THEN pending_age + 1 ELSE pending_age
    /\ last' = Internal
    /\ UNCHANGED <<batchConfig, batch_queue, batch_size_bytes, batch_timer,
                   flush_tasks, calls, transport, sent_count, bypassed, now,
                   nonBatchVars>>

\* =================================================== CircularAudioBuffer
\* self._lock is a threading.Lock, which is not reentrant: a call that holds it
\* and calls a method that takes it again waits for itself, and holds the lock
\* from then on.  Positions start at 0 as in the source; buffer[i + 1] is
\* self._buffer[i].  The counters read by get_stats() alone are not kept.

\* np.zeros(n)
Zeros(n) == [i \in 1..n |-> 0]

\* CircularAudioBuffer(initial_capacity = ic, max_capacity = mc)
RingInit(ic, mc) ==
    /\ max_capacity = mc
    /\ buffer = Zeros(ic)
    /\ capacity = ic
    /\ size = 0
    /\ head = 0
    /\ tail = 0
    /\ ring_lock = "free"

\* 2 ** int(np.ceil(np.log2(n))), for n >= 1
RECURSIVE PowerOfTwoFrom(_, _)
PowerOfTwoFrom(p, n) == IF p >= n THEN p ELSE PowerOfTwoFrom(2 * p, n)
NextPowerOfTwo(n) == PowerOfTwoFrom(1, n)

\* the samples at positions start .. start + n - 1 of buf, around the end
ReadAt(buf, cap, start, n) == [i \in 1..n |-> buf[((start + i - 1) % cap) + 1]]

\* buf with data written from position start on, around the end
WriteAt(buf, cap, start, data) ==
    [i \in 1..cap |->
        LET k == (i - 1 - start + cap) % cap
        IN IF k < Len(data) THEN data[k + 1] ELSE buf[i]]

\* `if new_capacity > self.max_capacity: return False`
BeyondMax(new_capacity) == new_capacity > max_capacity

\* what a call of the buffer leaves in `last`
RingCall(op, arg, res) == [op |-> op, id |-> 0, arg |-> arg, res |-> res]

\* the result None
None == <<-1>>

\* append(data).  _resize(self._size + data_size) is entered when the data does
\* not fit; with samples in the buffer it calls self.read(), which takes the
\* lock that append holds.
RingAppend(data) ==
    LET data_size == Len(data)
        required == size + data_size
        new_capacity == NextPowerOfTwo(required)
    IN /\ ring_lock = "free"
       /\ IF required > capacity
          THEN IF BeyondMax(required)
               THEN /\ last' = RingCall("append", data, "False")
                    /\ UNCHANGED <<buffer, capacity, size, head, tail, ring_lock>>
               ELSE IF new_capacity /= capacity /\ size > 0
               THEN /\ ring_lock' = "held"
                    /\ last' = RingCall("append", data, "blocked")
                    /\ UNCHANGED <<buffer, capacity, size, head, tail>>
               ELSE LET cap == new_capacity
                        start == IF new_capacity = capacity THEN tail ELSE size
                        buf == IF new_capacity = capacity THEN buffer ELSE Zeros(cap)
                    IN /\ buffer' = WriteAt(buf, cap, start, data)
                       /\ capacity' = cap
                       /\ head' = IF new_capacity = capacity THEN head ELSE 0
                       /\ tail' = (start + data_size) % cap
                       /\ size' = size + data_size
                       /\ last' = RingCall("append", data, "True")
                       /\ UNCHANGED ring_lock
          ELSE /\ buffer' = WriteAt(buffer, capacity, tail, data)
               /\ tail' = (tail + data_size) % capacity
               /\ size' = size + data_size
               /\ last' = RingCall("append", data, "True")
               /\ UNCHANGED <<capacity, head, ring_lock>>
       /\ UNCHANGED <<max_capacity, now, nonRingVars>>

\* read(n)
RingRead(n) ==
    /\ ring_lock = "free"
    /\ last' = RingCall("read", n,
                        IF n > size THEN None ELSE ReadAt(buffer, capacity, head, n))
    /\ UNCHANGED <<ringVars, now, nonRingVars>>

\* peek(n, offset)
RingPeek(n, offset) ==
    /\ ring_lock = "free"
    /\ last' = RingCall("peek", <<n, offset>>,
                        IF offset + n > size THEN None
                        ELSE ReadAt(buffer, capacity, (head + offset) % capacity, n))
    /\ UNCHANGED <<ringVars, now, nonRingVars>>

\* consume(n): `with self._lock: result = self.read(size)`, and read() takes
\* the lock again
RingConsume(n) ==
    /\ ring_lock = "free"
    /\ ring_lock' = "held"
    /\ last' = RingCall("consume", n, "blocked")
    /\ UNCHANGED <<max_capacity, buffer, capacity, size, head, tail, now, nonRingVars>>

\* clear()
RingClear ==
    /\ ring_lock = "free"
    /\ size' = 0
    /\ head' = 0
    /\ tail' = 0
    /\ last' = RingCall("clear", <<>>, "")
    /\ UNCHANGED <<max_capacity, buffer, capacity, ring_lock, now, nonRingVars>>

RingOps == {"append", "read", "consume", "peek", "clear"}

\* a call made while the lock is held waits for it
RingBlocked(op) ==
    /\ ring_lock = "held"
    /\ last' = RingCall(op, <<>>, "blocked")
    /\ UNCHANGED <<ringVars, now, nonRingVars>>

\* ============================================================ MemoryPool
\* An array is [len, base]: len(array), and the length of the allocation it
\* is a view of (array[:size] keeps the allocation of the pooled array).  The
\* field `requested` of a handed-out array is the size get_array was asked for.
\* The per-size locks guard blocks that call nothing and wait for nothing.
\* The counters read by get_stats() alone are not kept.

\* np.zeros(size)
NewArray(n) == [len |-> n, base |-> n]

\* array[:size]
View(array, n) == [len |-> n, base |-> array.base]

\* sorted(pool_sizes)
RECURSIVE Insert(_, _)
Insert(sorted, x) ==
    IF sorted = <<>> THEN <<x>>
    ELSE IF x <= Head(sorted) THEN <<x>> \o sorted
    ELSE <<Head(sorted)>> \o Insert(Tail(sorted), x)
RECURSIVE Sorted(_)
Sorted(list) ==
    IF list = <<>> THEN <<>> ELSE Insert(Sorted(Tail(list)), Head(list))

\* range(min(3, max_arrays_per_size))
PREALLOCATED == 3

\* MemoryPool(pool_sizes = sizes, max_arrays_per_size = maps)
PoolInit(sizes, maps) ==
    /\ pool_sizes = Sorted(sizes)
    /\ max_arrays_per_size = maps
    /\ pools = [ps \in {sizes[i] : i \in 1..Len(sizes)} |->
                   [k \in 1..Min(PREALLOCATED, maps) |-> NewArray(ps)]]
    /\ handed_out = <<>>

\* `for ps in self.pool_sizes: if ps >= size: pool_size = ps; break`
\* (0 stands for None)
RECURSIVE BestFitIn(_, _)
BestFitIn(sizes, n) ==
    IF sizes = <<>> THEN 0
    ELSE IF Head(sizes) >= n THEN Head(sizes)
    ELSE BestFitIn(Tail(sizes), n)
BestFit(n) == BestFitIn(pool_sizes, n)

\* `for ps in self.pool_sizes: if ps == size: pool_size = ps; break`
RECURSIVE MatchIn(_, _)
MatchIn(sizes, n) ==
    IF sizes = <<>> THEN 0
    ELSE IF Head(sizes) = n THEN Head(sizes)
    ELSE MatchIn(Tail(sizes), n)
Match(n) == MatchIn(pool_sizes, n)

\* what a call of the pool leaves in `last`
PoolCall(op, n, array) == [op |-> op, id |-> 0, requested |-> n, res |-> array]

\* get_array(size)
GetArray(n) ==
    LET pool_size == BestFit(n)
        hit == pool_size /= 0 /\ pool_size \in DOMAIN pools /\ pools[pool_size] /= <<>>
        pooled == Head(pools[pool_size])
        array == IF hit
                 THEN IF n < pool_size THEN View(pooled, n) ELSE pooled
                 ELSE NewArray(n)
    IN /\ Len(handed_out) < MaxOut
       /\ pools' = IF hit THEN [pools EXCEPT ![pool_size] = Tail(@)] ELSE pools
       /\ handed_out' = Append(handed_out, [requested |-> n, array |-> array])
       /\ last' = PoolCall("get_array", n, array)
       /\ UNCHANGED <<pool_sizes, max_arrays_per_size, now, nonPoolVars>>

\* seq without its i-th element
Without(seq, i) == SubSeq(seq, 1, i - 1) \o SubSeq(seq, i + 1, Len(seq))

\* return_array(array), for the i-th array the caller holds
ReturnArray(i) ==
    LET array == handed_out[i].array
        pool_size == Match(array.len)
    IN /\ i \in 1..Len(handed_out)
       /\ pools' = IF /\ pool_size /= 0
                      /\ pool_size \in DOMAIN pools
                      /\ Len(pools[pool_size]) < max_arrays_per_size
                   THEN [pools EXCEPT ![pool_size] = Append(@, array)]
                   ELSE pools
       /\ handed_out' = Without(handed_out, i)
       /\ last' = PoolCall("return_array", handed_out[i].requested, array)
       /\ UNCHANGED <<pool_sizes, max_arrays_per_size, now, nonPoolVars>>

\* ============================================================= SmartCache
\* A value is known by its kind: an "array" (np.ndarray, or an instance of a
\* class) can be weakly referenced, a "str" (also int, list, dict, tuple)
\* cannot, and weakref.ref(value, ...) raises TypeError for it.  The cache
\* holds a strong reference to every value, so a value dies when its entry is
\* deleted and the caller holds no reference to it; its weakref callback then
\* runs inside the `del`, in the deleting thread, and starts with
\* `with self._lock`.  The lock is not reentrant: a callback that runs while
\* its own thread holds the lock waits for it from then on.  Sizes are whole
\* megabytes.

ValueKinds == {"array", "str"}

\* SmartCache(max_size = ms, max_memory_mb = mm)
CacheInit(ms, mm) ==
    /\ max_size = ms
    /\ max_memory_mb = mm
    /\ cache = <<>>
    /\ access_order = <<>>
    /\ memory_usage = 0
    /\ weak_refs = {}
    /\ cache_lock = "free"
    /\ referenced = {}
    /\ use_order = <<>>
    /\ entry_size = <<>>

\* what a call of the cache leaves in `last`
CacheCall(op, key, res, evicted) ==
    [op |-> op, id |-> key, res |-> res, evicted |-> evicted]

\* the keys of seq that are in S, in the order of seq
RECURSIVE Only(_, _)
Only(seq, S) ==
    IF seq = <<>> THEN <<>>
    ELSE IF Head(seq) \in S THEN <<Head(seq)>> \o Only(Tail(seq), S)
    ELSE Only(Tail(seq), S)

\* self._access_order.remove(key)
OrderRemove(order, key) == Only(order, {order[i] : i \in 1..Len(order)} \ {key})

\* get(): self._access_order.remove(key); self._access_order.append(key)
MoveToEnd_Not(order, key) == order
MoveToEnd(order, key) == Append(OrderRemove(order, key), key)

\* deleting the entry of key lets its value die and runs cleanup_callback
Dies(key) == key \in weak_refs /\ key \notin referenced

\* `while len(self._cache) >= self.max_size or
\*        self._memory_usage + size_mb > self.max_memory_mb:
\*      if not self._evict_oldest(): break`
\* from the state s = [cache, access_order, weak_refs, evicted, blocked]
RECURSIVE EvictLoop(_, _)
EvictLoop(s, size_mb) ==
    IF /\ \/ Cardinality(DOMAIN s.cache) >= max_size
          \/ memory_usage + size_mb > max_memory_mb
       /\ s.access_order /= <<>>
    THEN LET oldest_key == Head(s.access_order)
             popped == [s EXCEPT !.access_order = Tail(@),
                                 !.cache = Del(@, oldest_key),
                                 !.evicted = Append(@, oldest_key)]
         IN IF oldest_key \in DOMAIN s.cache /\ Dies(oldest_key)
            THEN [popped EXCEPT !.blocked = TRUE]
            ELSE EvictLoop([popped EXCEPT !.weak_refs = @ \ {oldest_key}], size_mb)
    ELSE s

\* the ghost order after a call: the keys still cached, then the key used
Used(cached, key) == Append(Only(use_order, cached \ {key}), key)
StillCached(cached) == Only(use_order, cached)

\* the sizes of the entries still cached
SizesOf(cached) == [k \in cached |-> entry_size[k]]

\* put(key, value, size_mb); keep: the caller keeps a reference to value
CachePut(key, kind, size_mb, keep) ==
    LET exists == key \in DOMAIN cache
        start == [cache |-> cache, access_order |-> access_order,
                  weak_refs |-> weak_refs, evicted |-> <<>>, blocked |-> FALSE]
        removed == IF exists
                   THEN [start EXCEPT !.cache = Del(@, key),
                                      !.access_order = OrderRemove(@, key),
                                      !.weak_refs = @ \ {key}]
                   ELSE start
        s == EvictLoop(removed, size_mb)
    IN /\ cache_lock = "free"
       /\ memory_usage + size_mb <= MaxUsage
       /\ IF exists /\ Dies(key)
          THEN \* remove(key) stops in `del self._cache[key]`
               /\ cache' = Del(cache, key)
               /\ cache_lock' = "held"
               /\ use_order' = StillCached(DOMAIN cache')
               /\ entry_size' = SizesOf(DOMAIN cache')
               /\ last' = CacheCall("put", key, "blocked", <<>>)
               /\ UNCHANGED <<access_order, memory_usage, weak_refs, referenced>>
          ELSE IF s.blocked
          THEN \* _evict_oldest() stops in `del self._cache[oldest_key]`
               /\ cache' = s.cache
               /\ access_order' = s.access_order
               /\ weak_refs' = s.weak_refs
               /\ cache_lock' = "held"
               /\ referenced' = referenced \cap DOMAIN s.cache
               /\ use_order' = StillCached(DOMAIN cache')
               /\ entry_size' = SizesOf(DOMAIN cache')
               /\ last' = CacheCall("put", key, "blocked", s.evicted)
               /\ UNCHANGED memory_usage
          ELSE /\ cache' = Put(s.cache, key, kind)
               /\ access_order' = Append(s.access_order, key)
               /\ memory_usage' = memory_usage + size_mb
               /\ weak_refs' = IF kind = "array" THEN s.weak_refs \cup {key}
                                                 ELSE s.weak_refs
               /\ referenced' = ((referenced \cap DOMAIN s.cache) \ {key})
                                    \cup (IF keep THEN {key} ELSE {})
               /\ use_order' = Used(DOMAIN cache', key)
               /\ entry_size' = Put(SizesOf(DOMAIN s.cache), key, size_mb)
               /\ last' = CacheCall("put", key,
                                    IF kind = "array" THEN "None" ELSE "TypeError",
                                    s.evicted)
               /\ UNCHANGED cache_lock
       /\ UNCHANGED <<max_size, max_memory_mb, now, nonCacheVars>>

\* get(key); the caller drops the value it gets after using it
CacheGet(key) ==
    /\ cache_lock = "free"
    /\ IF key \in DOMAIN cache
       THEN /\ access_order' = MoveToEnd(access_order, key)
            /\ use_order' = Used(DOMAIN cache, key)
            /\ last' = CacheCall("get", key, cache[key], <<>>)
       ELSE /\ last' = CacheCall("get", key, "None", <<>>)
            /\ UNCHANGED <<access_order, use_order>>
    /\ UNCHANGED <<max_size, max_memory_mb, cache, memory_usage, weak_refs, cache_lock,
                   referenced, entry_size, now, nonCacheVars>>

\* remove(key), called by the user: it does not take the lock, the callback
\* of a dying value does
CacheRemove(key) ==
    /\ IF key \notin DOMAIN cache
       THEN /\ last' = CacheCall("remove", key, "False", <<>>)
            /\ UNCHANGED <<cache, access_order, weak_refs, referenced, use_order,
                           entry_size>>
       ELSE IF Dies(key) /\ cache_lock = "held"
       THEN /\ cache' = Del(cache, key)
            /\ use_order' = StillCached(DOMAIN cache')
            /\ entry_size' = SizesOf(DOMAIN cache')
            /\ last' = CacheCall("remove", key, "blocked", <<>>)
            /\ UNCHANGED <<access_order, weak_refs, referenced>>
       ELSE /\ cache' = Del(cache, key)
            /\ access_order' = OrderRemove(access_order, key)
            /\ weak_refs' = weak_refs \ {key}
            /\ referenced' = referenced \ {key}
            /\ use_order' = StillCached(DOMAIN cache')
            /\ entry_size' = SizesOf(DOMAIN cache')
            /\ last' = CacheCall("remove", key, "True", <<>>)
    /\ UNCHANGED <<max_size, max_memory_mb, memory_usage, cache_lock, now, nonCacheVars>>

\* clear()
CacheClear ==
    /\ cache_lock = "free"
    /\ cache' = <<>>
    /\ use_order' = <<>>
    /\ entry_size' = <<>>
    /\ IF \E key \in DOMAIN cache : Dies(key)
       THEN \* stops in `self._cache.clear()`
            /\ cache_lock' = "held"
            /\ last' = CacheCall("clear", 0, "blocked", <<>>)
            /\ UNCHANGED <<access_order, memory_usage, weak_refs, referenced>>
       ELSE /\ access_order' = <<>>
            /\ weak_refs' = {}
            /\ memory_usage' = 0
            /\ referenced' = {}
            /\ last' = CacheCall("clear", 0, "None", <<>>)
            /\ UNCHANGED cache_lock
    /\ UNCHANGED <<max_size, max_memory_mb, now, nonCacheVars>>

CacheLockedOps == {"get", "put", "clear"}

\* a call made while the lock is held waits for it
CacheBlocked(op) ==
    /\ cache_lock = "held"
    /\ last' = CacheCall(op, 0, "blocked", <<>>)
    /\ UNCHANGED <<cacheVars, now, nonCacheVars>>

\* ======================================================= LatencyOptimizer
\* All calls use one operation key and one batch processor; the structures of
\* different keys are independent.  Request n is the n-th batch_requests call
\* and stands for its request_data; the processor's result for request n is
\* written n.  The lock of the key is an asyncio.Lock, which is not reentrant:
\* it is held at a suspension point only by a call that awaits _process_batch
\* inside its `async with` block, and _process_batch starts by acquiring the
\* same lock.

\* self.batch_size = 10
batch_size == 10

Requests == 1..MaxRequests

\* LatencyOptimizer()
LatInit ==
    /\ batch_queues = <<>>
    /\ batch_timers = "absent"
    /\ batch_locks = "free"
    /\ futures = [r \in Requests |-> [state |-> "none", result |-> 0]]
    /\ caller = [r \in Requests |-> "none"]
    /\ process_tasks = 0
    /\ processing = {}
    /\ requested = 0

\* what a step of the optimizer leaves in `last`
LatCall(op, r, res) == [op |-> op, id |-> r, res |-> res]

\* `len(self._batch_queues[operation_key]) >= self.batch_size`
BatchIsFull(queue) == Len(queue) >= batch_size

\* the calls whose future is done and that have not resumed yet
Resumable == {r \in Requests : caller[r] = "future"
                                   /\ futures[r].state \in {"result", "exception"}}

\* batch_requests(operation_key, request_data, batch_processor) up to its
\* first suspension: the lock, `await self._process_batch(...)` under the
\* lock, or `await future`.  Calls arrive while at most MaxBusy batches are
\* with the processor and no finished call is waiting to resume.
BatchRequests ==
    LET r == requested + 1
        queue == Append(batch_queues, r)
    IN /\ requested < MaxRequests
       /\ Cardinality(processing) <= MaxBusy
       /\ Resumable = {}
       /\ requested' = r
       /\ futures' = [futures EXCEPT ![r] = [state |-> "pending", result |-> 0]]
       /\ IF batch_locks = "held"
          THEN \* waits in `async with self._batch_locks[operation_key]`
               /\ caller' = [caller EXCEPT ![r] = "lock"]
               /\ UNCHANGED <<batch_queues, batch_timers, batch_locks>>
          ELSE /\ batch_queues' = queue
               /\ IF BatchIsFull(queue)
                  THEN \* the timer is cancelled; _process_batch, awaited with
                       \* the lock held, waits for the lock
                       /\ batch_timers' = IF batch_timers = "absent" THEN "absent"
                                                                     ELSE "cancelled"
                       /\ batch_locks' = "held"
                       /\ caller' = [caller EXCEPT ![r] = "process_batch"]
                  ELSE /\ batch_timers' = IF batch_timers = "absent" THEN "armed"
                                                                     ELSE batch_timers
                       /\ caller' = [caller EXCEPT ![r] = "future"]
                       /\ UNCHANGED batch_locks
       /\ last' = LatCall("batch_requests", r, caller'[r])
       /\ UNCHANGED <<process_tasks, processing, now, nonLatVars>>

\* loop.call_later(self.batch_timeout, lambda: asyncio.create_task(
\*     self._process_batch(operation_key, batch_processor))): the timer fires
LatTimerFires ==
    /\ batch_timers = "armed"
    /\ batch_timers' = "fired"
    /\ process_tasks' = process_tasks + 1
    /\ last' = LatCall("timer", 0, "")
    /\ UNCHANGED <<batch_queues, batch_locks, futures, caller, processing, requested,
                   now, nonLatVars>>

\* a _process_batch task runs up to `await batch_processor(requests)`
ProcessBatch ==
    /\ process_tasks > 0
    /\ batch_locks = "free"
    /\ process_tasks' = process_tasks - 1
    /\ IF batch_queues = <<>>
       THEN /\ last' = LatCall("_process_batch", 0, "empty")
            /\ UNCHANGED <<batch_queues, batch_timers, processing>>
       ELSE /\ processing' = processing \cup {batch_queues}
            /\ batch_queues' = <<>>
            /\ batch_timers' = "absent"
            /\ last' = LatCall("_process_batch", 0, "batch")
    /\ UNCHANGED <<batch_locks, futures, caller, requested, now, nonLatVars>>

\* results = await batch_processor(requests): one result per request, in the
\* order of the requests
Results(requests) == requests

\* `for (_, future), result in zip(batch, results): future.set_result(result)`
Distribute(batch, results) ==
    [r \in Requests |->
        IF \E i \in 1..Len(batch) : batch[i] = r
        THEN LET i == CHOOSE i \in 1..Len(batch) : batch[i] = r
             IN [state |-> "result", result |-> results[i]]
        ELSE futures[r]]

\* `for _, future in batch: future.set_exception(e)`
Propagate(batch) ==
    [r \in Requests |->
        IF \E i \in 1..Len(batch) : batch[i] = r
        THEN [state |-> "exception", result |-> 0]
        ELSE futures[r]]

ProcessorOutcomes == {"returns", "raises"}

\* batch_processor returns or raises, and _process_batch runs to its end
ProcessorDone(batch, outcome) ==
    /\ batch \in processing
    /\ processing' = processing \ {batch}
    /\ futures' = IF outcome = "returns" THEN Distribute(batch, Results(batch))
                                         ELSE Propagate(batch)
    /\ last' = LatCall("batch_processor", 0, outcome)
    /\ UNCHANGED <<batch_queues, batch_timers, batch_locks, caller, process_tasks,
                   requested, now, nonLatVars>>

\* `return await future`: the call resumes with the result or the exception
\* (the loop resumes the calls of one batch in the order their futures were
\* set); what it returns or raises is left in `last`, the future is dropped
CallReturns(r) ==
    /\ r \in Resumable
    /\ \A q \in Resumable : r <= q
    /\ caller' = [caller EXCEPT ![r] = "done"]
    /\ futures' = [futures EXCEPT ![r] = [state |-> "none", result |-> 0]]
    /\ last' = LatCall("return", r, futures[r])
    /\ UNCHANGED <<batch_queues, batch_timers, batch_locks, process_tasks,
                   processing, requested, now, nonLatVars>>

\* time passes
Tick ==
    /\ now < MaxTime
    /\ now' = now + 1
    /\ last' = Internal
    /\ UNCHANGED <<taskVars, sweepVars, nonTaskVars>>

ConnSpecInit ==
    /\ \E mx \in ConnectionLimits, mpc \in PerConnectionLimits : ConnInit(mx, mpc)
    /\ TaskInit(1, 1)
    /\ RateInit(10, 20, TRUE)
    /\ LbInit("least_connections")
    /\ BufInit(1, 5, 7)
    /\ CompInit(4, 8, 10)
    /\ BatchInit(10, 8192, 1)
    /\ RingInit(2, 4)
    /\ PoolInit(<<2>>, 1)
    /\ CacheInit(1, 1)
    /\ SweepInit(1)
    /\ LatInit
    /\ now = 0
    /\ last = InitLast

ConnNext ==
    \/ PoolStart
    \/ PoolStop
    \/ \E c \in ConnIds : AddConnection(c)
    \/ \E c \in ConnIds : RemoveConnection(c)
    \/ \E c \in ConnIds : UpdateActivity(c)
    \/ \E c \in ConnIds : AcquireSlot(c)
    \/ \E c \in ConnIds : ReleaseSlot(c)
    \/ CleanupInactive
    \/ Tick

ConnSpec == ConnSpecInit /\ [][ConnNext]_vars

\* ------------------------------------------------------------------ TaskSpec
TaskSpecInit ==
    /\ \E mc \in ConcurrencyLimits, mp \in PendingLimits : TaskInit(mc, mp)
    /\ ConnInit(1, 1)
    /\ RateInit(10, 20, TRUE)
    /\ LbInit("least_connections")
    /\ BufInit(1, 5, 7)
    /\ CompInit(4, 8, 10)
    /\ BatchInit(10, 8192, 1)
    /\ RingInit(2, 4)
    /\ PoolInit(<<2>>, 1)
    /\ CacheInit(1, 1)
    /\ SweepInit(1)
    /\ LatInit
    /\ now = 0
    /\ last = InitLast

TaskNext ==
    \/ \E n \in 1..MaxWorkers : Start(n)
    \/ StartWhileRunning
    \/ StopBegin
    \/ StopEnd
    \/ \E p \in SubmitPriorities, tid \in SubmitIds : Submit(p, tid)
    \/ \E w \in Workers : WorkerBegin(w)
    \/ \E w \in Workers : WorkerWake(w)
    \/ \E w \in Workers : WorkerAcquire(w)
    \/ \E w \in Workers, outcome \in Done : WorkerTaskDone(w, outcome)
    \/ \E id \in CancelIds : CancelTask(id)

TaskSpec == TaskSpecInit /\ [][TaskNext]_vars

\* The event loop runs every coroutine that is ready: a worker that was
\* created, woken by the event or given a permit; every coroutine a worker
\* runs ends; gather returns when its workers have ended.
TaskLiveSpec ==
    /\ TaskSpecInit /\ [][TaskNext]_vars
    /\ \A w \in Workers : WF_vars(WorkerBegin(w))
    /\ \A w \in Workers : WF_vars(WorkerWake(w))
    /\ \A w \in Workers : WF_vars(WorkerAcquire(w))
    /\ \A w \in Workers : WF_vars(\E outcome \in Done : WorkerTaskDone(w, outcome))
    /\ WF_vars(StopEnd)

\* --------------------------------------------------- specification SweepSpec
\* the pool with its cleanup task, over a time long enough for records to age
SweepSpecInit ==
    /\ TaskInit(1, 2)
    /\ SweepInit(1)
    /\ LatInit
    /\ ConnInit(1, 1)
    /\ RateInit(10, 20, TRUE)
    /\ LbInit("least_connections")
    /\ BufInit(1, 5, 7)
    /\ CompInit(4, 8, 10)
    /\ BatchInit(10, 8192, 1)
    /\ RingInit(2, 4)
    /\ PoolInit(<<2>>, 1)
    /\ CacheInit(1, 1)
    /\ now = 1
    /\ last = InitLast

SweepNext ==
    \/ TaskNext
    \/ CleanupSweep
    \/ SweepTick

SweepSpec == SweepSpecInit /\ [][SweepNext]_vars

\* ----------------------------------------------------- specification LatSpec
LatSpecInit ==
    /\ LatInit
    /\ TaskInit(1, 1)
    /\ SweepInit(1)
    /\ ConnInit(1, 1)
    /\ RateInit(10, 20, TRUE)
    /\ LbInit("least_connections")
    /\ BufInit(1, 5, 7)
    /\ CompInit(4, 8, 10)
    /\ BatchInit(10, 8192, 1)
    /\ RingInit(2, 4)
    /\ PoolInit(<<2>>, 1)
    /\ CacheInit(1, 1)
    /\ now = 0
    /\ last = InitLast

LatNext ==
    \/ BatchRequests
    \/ LatTimerFires
    \/ ProcessBatch
    \/ \E batch \in processing, outcome \in ProcessorOutcomes : ProcessorDone(batch, outcome)
    \/ \E r \in Requests : CallReturns(r)

\* The event loop fires every timer and runs every task that is ready; the
\* batch processor returns or raises.
LatSpec ==
    /\ LatSpecInit /\ [][LatNext]_vars
    /\ WF_vars(LatTimerFires)
    /\ WF_vars(ProcessBatch)
    /\ WF_vars(\E batch \in processing, outcome \in ProcessorOutcomes :
                   ProcessorDone(batch, outcome))
    /\ \A r \in Requests : WF_vars(CallReturns(r))

\* ---------------------------------------------------- specification RateSpec
RateSpecInit ==
    /\ \E rl \in RateLimits, pc \in BOOLEAN : RateInit(rl[1], rl[2], pc)
    /\ TaskInit(1, 1)
    /\ ConnInit(1, 1)
    /\ LbInit("least_connections")
    /\ BufInit(1, 5, 7)
    /\ CompInit(4, 8, 10)
    /\ BatchInit(10, 8192, 1)
    /\ RingInit(2, 4)
    /\ PoolInit(<<2>>, 1)
    /\ CacheInit(1, 1)
    /\ SweepInit(1)
    /\ LatInit
    /\ now = 0
    /\ last = InitLast

RateNext ==
    \/ \E c \in RateIds : IsAllowed(c)
    \/ \E d \in Elapses : RateElapse(d)

RateSpec == RateSpecInit /\ [][RateNext]_vars

\* ------------------------------------------------------ specification LbSpec
LbSpecInit ==
    /\ \E alg \in Algorithms : LbInit(alg)
    /\ TaskInit(1, 1)
    /\ ConnInit(1, 1)
    /\ RateInit(10, 20, TRUE)
    /\ BufInit(1, 5, 7)
    /\ CompInit(4, 8, 10)
    /\ BatchInit(10, 8192, 1)
    /\ RingInit(2, 4)
    /\ PoolInit(<<2>>, 1)
    /\ CacheInit(1, 1)
    /\ SweepInit(1)
    /\ LatInit
    /\ now = 0
    /\ last = InitLast

LbNext ==
    \/ \E p \in ProcIds : AddProcessor(p)
    \/ \E p \in ProcIds : RemoveProcessor(p)
    \/ GetNextProcessor
    \/ \E p \in ProcIds : ReleaseProcessor(p)
    \/ \E p \in ProcIds : MarkProcessorUnhealthy(p)
    \/ \E p \in ProcIds : MarkProcessorHealthy(p)

LbSpec == LbSpecInit /\ [][LbNext]_vars

\* ----------------------------------------------------- specification BufSpec
BufSpecInit ==
    /\ \E mc \in ContextLimits, ci \in Intervals, ct \in Thresholds : BufInit(mc, ci, ct)
    /\ TaskInit(1, 1)
    /\ ConnInit(1, 1)
    /\ RateInit(10, 20, TRUE)
    /\ LbInit("least_connections")
    /\ CompInit(4, 8, 10)
    /\ BatchInit(10, 8192, 1)
    /\ RingInit(2, 4)
    /\ PoolInit(<<2>>, 1)
    /\ CacheInit(1, 1)
    /\ SweepInit(1)
    /\ LatInit
    /\ now = 0
    /\ last = InitLast

BufNext ==
    \/ BufStart
    \/ BufStop
    \/ BufStopReturn
    \/ \E tokens \in Batches : AddTokens(tokens)
    \/ \E tokens \in DictBatches : ProcessTokens(tokens)
    \/ LoopIteration
    \/ \E outcome \in CallbackOutcomes : CallbackReturn(outcome)
    \/ LoopCancelled
    \/ BufTick

BufSpec == BufSpecInit /\ [][BufNext]_vars

\* token lists of the runs checked for progress: a word, a token without text
LiveBatches == {<<Token(WORD, 7)>>, <<Token(NoText, 7)>>}

BufLiveNext ==
    \/ BufStart
    \/ BufStop
    \/ BufStopReturn
    \/ \E tokens \in LiveBatches : AddTokens(tokens)
    \/ LoopIteration
    \/ \E outcome \in CallbackOutcomes : CallbackReturn(outcome)
    \/ LoopCancelled
    \/ BufTick

\* The event loop runs every task that is ready and fires every timer; a send on
\* the websocket returns or raises.
BufLiveSpec ==
    /\ BufSpecInit /\ [][BufLiveNext]_vars
    /\ WF_vars(LoopIteration)
    /\ WF_vars(LoopCancelled)
    /\ WF_vars(\E outcome \in CallbackOutcomes : CallbackReturn(outcome))
    /\ WF_vars(BufStopReturn)
    /\ WF_vars(BufTick)

\* ---------------------------------------------------- specification CompSpec
\* constructor arguments: (min_compress_size, compression_threshold_ratio in
\* tenths, performance_window)
CompConfigs == {<<4, 3, 10>>, <<25, 8, 10>>, <<27, 10, 10>>}

\* the characters of a message: runs of the given lengths, of 'a' and 'b' in turn
RECURSIVE Alternate(_, _)
Alternate(lengths, c) ==
    IF lengths = <<>> THEN <<>>
    ELSE Repeat(c, Head(lengths))
           \o Alternate(Tail(lengths), IF c = CHAR_A THEN CHAR_B ELSE CHAR_A)

\* messages: an empty object, and objects of 24, 25 and 27 bytes whose
\* compressed forms have 7, 11 and 27 bytes
Messages == {<<>>,
             Alternate(<<22>>, CHAR_A),
             Alternate(<<8, 8, 7>>, CHAR_A),
             Alternate(<<2, 2, 2, 2, 2, 2, 2, 2, 3, 3, 3>>, CHAR_A)}

CompSpecInit ==
    /\ \E c \in CompConfigs : CompInit(c[1], c[2], c[3])
    /\ TaskInit(1, 1)
    /\ ConnInit(1, 1)
    /\ RateInit(10, 20, TRUE)
    /\ LbInit("least_connections")
    /\ BufInit(1, 5, 7)
    /\ BatchInit(10, 8192, 1)
    /\ RingInit(2, 4)
    /\ PoolInit(<<2>>, 1)
    /\ CacheInit(1, 1)
    /\ SweepInit(1)
    /\ LatInit
    /\ now = 0
    /\ last = InitLast

CompNext ==
    \/ \E message \in Messages, message_type \in MessageType :
           CompressMessage(message, message_type)
    \/ CompElapse

CompSpec == CompSpecInit /\ [][CompNext]_vars


\* --------------------------------------------------- specification BatchSpec
\* constructor arguments: (max_batch_size, max_batch_bytes, batch_timeout_ms in
\* clock ticks); a message has 2 bytes
BatchConfigs == {<<10, 8192, 2>>, <<2, 8192, 2>>, <<3, 4, 1>>, <<2, 1, 1>>}

BatchSpecInit ==
    /\ \E c \in BatchConfigs : BatchInit(c[1], c[2], c[3])
    /\ TaskInit(1, 1)
    /\ ConnInit(1, 1)
    /\ RateInit(10, 20, TRUE)
    /\ LbInit("least_connections")
    /\ BufInit(1, 5, 7)
    /\ CompInit(4, 8, 10)
    /\ RingInit(2, 4)
    /\ PoolInit(<<2>>, 1)
    /\ CacheInit(1, 1)
    /\ SweepInit(1)
    /\ LatInit
    /\ now = 0
    /\ last = InitLast

BatchNext ==
    \/ \E message_type \in MessageType, force_immediate \in BOOLEAN :
           SendMessage(message_type, force_immediate)
    \/ FlushNow
    \/ CallResumes
    \/ FlushReturns
    \/ TimerFires
    \/ FlushTask
    \/ BatchTick

BatchSpec == BatchSpecInit /\ [][BatchNext]_vars


\* ---------------------------------------------------- specification RingSpec
\* constructor arguments: (initial_capacity, max_capacity)
RingConfigs == {<<2, 5>>, <<4, 8>>}

\* the arrays passed to append
Chunks == {<<>>, <<1>>, <<1, 2>>, <<2, 2, 2>>, <<1, 2, 1, 2, 1>>, <<2, 1, 2, 1, 2, 1>>}

\* the sizes passed to read, consume and peek
ReadSizes == {0, 1, 2, 5}

RingSpecInit ==
    /\ \E c \in RingConfigs : RingInit(c[1], c[2])
    /\ TaskInit(1, 1)
    /\ ConnInit(1, 1)
    /\ RateInit(10, 20, TRUE)
    /\ LbInit("least_connections")
    /\ BufInit(1, 5, 7)
    /\ CompInit(4, 8, 10)
    /\ BatchInit(10, 8192, 1)
    /\ PoolInit(<<2>>, 1)
    /\ CacheInit(1, 1)
    /\ SweepInit(1)
    /\ LatInit
    /\ now = 0
    /\ last = InitLast

RingNext ==
    \/ \E data \in Chunks : RingAppend(data)
    \/ \E n \in ReadSizes : RingRead(n)
    \/ \E n \in ReadSizes, offset \in {0, 1} : RingPeek(n, offset)
    \/ \E n \in ReadSizes : RingConsume(n)
    \/ RingClear
    \/ \E op \in RingOps : RingBlocked(op)

RingSpec == RingSpecInit /\ [][RingNext]_vars


\* ---------------------------------------------------- specification PoolSpec
\* constructor arguments: (pool_sizes, max_arrays_per_size)
PoolConfigs == {<<<<4, 2>>, 1>>, <<<<2, 4>>, 2>>, <<<<2, 4>>, 4>>}

\* the sizes passed to get_array
RequestSizes == 1..5

PoolSpecInit ==
    /\ \E c \in PoolConfigs : PoolInit(c[1], c[2])
    /\ TaskInit(1, 1)
    /\ ConnInit(1, 1)
    /\ RateInit(10, 20, TRUE)
    /\ LbInit("least_connections")
    /\ BufInit(1, 5, 7)
    /\ CompInit(4, 8, 10)
    /\ BatchInit(10, 8192, 1)
    /\ RingInit(2, 4)
    /\ CacheInit(1, 1)
    /\ SweepInit(1)
    /\ LatInit
    /\ now = 0
    /\ last = InitLast

PoolNext ==
    \/ \E n \in RequestSizes : GetArray(n)
    \/ \E i \in 1..MaxOut : ReturnArray(i)

PoolSpec == PoolSpecInit /\ [][PoolNext]_vars


\* --------------------------------------------------- specification CacheSpec
\* constructor arguments: (max_size, max_memory_mb)
CacheConfigs == {<<1, 3>>, <<2, 3>>, <<2, 1>>}

\* the keys passed to put, get and remove
Keys == 1..3

\* the values of size_mb passed to put
SizesMb == {0, 1}

CacheSpecInit ==
    /\ \E c \in CacheConfigs : CacheInit(c[1], c[2])
    /\ TaskInit(1, 1)
    /\ ConnInit(1, 1)
    /\ RateInit(10, 20, TRUE)
    /\ LbInit("least_connections")
    /\ BufInit(1, 5, 7)
    /\ CompInit(4, 8, 10)
    /\ BatchInit(10, 8192, 1)
    /\ RingInit(2, 4)
    /\ PoolInit(<<2>>, 1)
    /\ SweepInit(1)
    /\ LatInit
    /\ now = 0
    /\ last = InitLast

CacheNext ==
    \/ \E key \in Keys, kind \in ValueKinds, size_mb \in SizesMb, keep \in BOOLEAN :
           CachePut(key, kind, size_mb, keep)
    \/ \E key \in Keys : CacheGet(key)
    \/ \E key \in Keys : CacheRemove(key)
    \/ CacheClear
    \/ \E op \in CacheLockedOps : CacheBlocked(op)

CacheSpec == CacheSpecInit /\ [][CacheNext]_vars



\* ==================================================== properties: TaskSpec
\* the units of work that are executing: their asyncio.Task exists and has not ended
RunningUnits == {w \in Workers : worker[w] = "run"}

\* the items of the pending queues
PendingItems == UNION {{pending_tasks[p][i] : i \in 1..Len(pending_tasks[p])} : p \in Priorities}

\* the items dequeued by a worker that is still waiting for an execution slot
BlockedItems == {wtask[w] : w \in {v \in Workers : worker[v] = "sem"}}

\* C1: the number of units of work executing at the same time never exceeds
\* max_concurrent_tasks, for every number of workers and every sequence of
\* submit, completion, failure and cancel_task.
C1_ConcurrencyCeiling == Cardinality(RunningUnits) <= max_concurrent_tasks

\* the ceiling is reached while a further worker holds a dequeued item
C1_Witness ==
    /\ Cardinality(RunningUnits) = max_concurrent_tasks
    /\ \E w \in Workers : worker[w] = "sem"

\* C2: submit raises QueueFull exactly when the pending total is already
\* >= max_pending_tasks; the pending total never exceeds that limit; a rejected
\* submit leaves the pending queues and _total_submitted unchanged.
C2_SubmitCapacity ==
    [][last'.op = "submit" =>
          /\ (last'.res = "QueueFull") <=> (TotalPending >= max_pending_tasks)
          /\ last'.res = "QueueFull" =>
                 /\ pending_tasks' = pending_tasks
                 /\ total_submitted' = total_submitted
          /\ last'.res = "ok" =>
                 /\ TotalPending' = TotalPending + 1
                 /\ total_submitted' = total_submitted + 1
          /\ TotalPending' <= max_pending_tasks]_vars

\* a submit was rejected with the queues exactly at the limit
C2_Witness ==
    /\ last.op = "submit"
    /\ last.res = "QueueFull"
    /\ TotalPending = max_pending_tasks

\* a worker takes an item from the pending queues in this step
Dequeues(w) == wtask'[w] # NoTask /\ wtask'[w] # wtask[w]

\* C3: the item a worker dequeues is the oldest item (smallest submission
\* number) of the lowest-ordinal non-empty queue: no queue of a lower ordinal
\* holds an item, and no item of its own queue was submitted before it.
C3_DequeueOrder ==
    [][\A w \in Workers : Dequeues(w) =>
          LET t == wtask'[w] IN
          /\ t \in PendingItems
          /\ t \notin PendingItems'
          /\ PendingItems' = PendingItems \ {t}
          /\ \E p \in Priorities :
                /\ \E i \in 1..Len(pending_tasks[p]) : pending_tasks[p][i] = t
                /\ \A k \in Priorities : k < p => pending_tasks[k] = <<>>
                /\ \A j \in 1..Len(pending_tasks[p]) : pending_tasks[p][j].seq >= t.seq]_vars

\* a CRITICAL item was dequeued ahead of a NORMAL item submitted before it
C3_Witness ==
    \E w \in Workers :
        /\ wtask[w] # NoTask
        /\ wtask[w].priority = CRITICAL
        /\ \E i \in 1..Len(pending_tasks[NORMAL]) :
               pending_tasks[NORMAL][i].seq < wtask[w].seq

\* a unit of work obtains its execution slot in this step
Starts(w) == worker'[w] = "run" /\ (worker[w] # "run" \/ wtask'[w] # wtask[w])

\* C4: a unit of work never starts running while a submitted unit of a lower
\* ordinal is still waiting to run (in a pending queue, or dequeued by a worker
\* that waits for a slot).
C4_ExecutionPriority ==
    [][\A w \in Workers : Starts(w) =>
          \A u \in PendingItems' \cup BlockedItems' :
              u.priority >= wtask'[w].priority]_vars

\* C5: when a unit of work raises, its record gets the error and a completion
\* time, _total_failed grows by one, and the worker stays in its loop: it
\* leaves only if the pool was stopped, and with work pending it has already
\* dequeued the next item.
C5_FailureIsContained ==
    [][\A w \in Workers :
          (last'.op = "task" /\ last'.id = w /\ last'.res = "fail") =>
              LET id == wtask[w].task_id IN
              /\ id \in DOMAIN completed_tasks'
              /\ completed_tasks'[id].error
              /\ completed_tasks'[id].completed_at # NoTime
              /\ total_failed' = total_failed + 1
              /\ worker'[w] = "exited" => ~pool_running
              /\ (pool_running /\ TotalPending > 0) =>
                     /\ worker'[w] \in {"run", "sem"}
                     /\ wtask'[w] \in PendingItems]_vars

\* a task has just failed and its worker is already running a later task
C5_Witness ==
    /\ last.op = "task"
    /\ last.res = "fail"
    /\ worker[last.id] = "run"
    /\ total_failed >= 1
    /\ \E id \in DOMAIN completed_tasks : completed_tasks[id].error

\* C6: free slots + units of work holding a slot = max_concurrent_tasks in
\* every state: the slot is given back on the normal, the error and the
\* cancelled path.
C6_SlotsConserved == semaphore + Cardinality(RunningUnits) = max_concurrent_tasks

\* a task has just ended cancelled and every slot is free again
C6_Witness ==
    /\ last.op = "task"
    /\ last.res = "cancelled"
    /\ semaphore = max_concurrent_tasks

\* C7: cancel_task(id) returns True exactly when id is tracked in
\* _running_tasks; then the tracked unit is running that id and it alone gets
\* the cancellation request; otherwise nothing changes at all.
C7_CancelFrame ==
    [][last'.op = "cancel_task" =>
          LET id == last'.id IN
          /\ (last'.res = "True") <=> (id \in DOMAIN running_tasks)
          /\ UNCHANGED <<max_concurrent_tasks, max_pending_tasks, pending_tasks,
                         running_tasks, completed_tasks, semaphore, task_available,
                         pool_running, worker, wtask, task_counter, total_submitted,
                         total_completed, total_failed, total_cancelled, stop_pc>>
          /\ last'.res = "False" => tstate' = tstate
          /\ last'.res = "True" =>
                 LET w == running_tasks[id] IN
                 /\ worker[w] = "run"
                 /\ wtask[w].task_id = id
                 /\ tstate'[w] = "cancelling"
                 /\ \A v \in Workers \ {w} : tstate'[v] = tstate[v]]_vars

\* one of two running tasks has just been asked to cancel
C7_Witness ==
    /\ last.op = "cancel_task"
    /\ last.res = "True"
    /\ last.id \in DOMAIN running_tasks
    /\ tstate[running_tasks[last.id]] = "cancelling"
    /\ \E v \in Workers : tstate[v] = "running"

\* C33: until stop() is called, every worker that start() created is alive:
\* none has left its loop, whatever the outcome of the tasks it ran.
C33_WorkersStayAlive ==
    (pool_running /\ stop_pc = "idle") => \A w \in Workers : worker[w] /= "exited"

\* C34: every accepted unit of work is pending, running or finished:
\* total_submitted = pending + running + completed + failed + cancelled.
C34_Accounting ==
    total_submitted = TotalPending + Cardinality(DOMAIN running_tasks)
                          + total_completed + total_failed + total_cancelled

\* ==================================================== properties: ConnSpec
\* C8: add_connection returns None and changes nothing whenever the pool
\* already holds >= max_connections connections, so the number of open
\* connections never exceeds max_connections.
C8_AdmissionBound ==
    [][last'.op = "add_connection" =>
          /\ Cardinality(DOMAIN connections) >= max_connections =>
                 /\ last'.res = "None"
                 /\ connections' = connections
                 /\ connection_loads' = connection_loads
          /\ Cardinality(DOMAIN connections) < max_connections => last'.res = "id"
          /\ Cardinality(DOMAIN connections') <= max_connections]_vars

\* an admission was refused while max_connections earlier ones are open
C8_Witness ==
    /\ last.op = "add_connection"
    /\ last.res = "None"
    /\ Cardinality(DOMAIN connections) = max_connections

\* C9: for every connection id, the operations that acquired a slot for it and
\* have not released it never number more than max_concurrent_per_connection.
C9_PerConnectionBound == \A c \in ConnIds : held[c] <= max_concurrent_per_connection

C35_LeastLoadedReturned ==
    LET below == {c \in DOMAIN connections :
                      connection_loads[c] < max_concurrent_per_connection}
    IN IF below = {}
       THEN GetLeastLoadedConnection = {}
       ELSE /\ GetLeastLoadedConnection /= {}
            /\ \A r \in GetLeastLoadedConnection :
                   \A c \in DOMAIN connections :
                       connection_loads[r] <= connection_loads[c]

\* ==================================================== properties: RateSpec
\* C11: every is_allowed call on a key refills the key's bucket by the time
\* elapsed since its last check times the rate, capped at burst_size, and then
\* is allowed and consumes one token iff at least one token is available.  So,
\* with rate 10/s and burst 20, the first 20 checks made on a fresh key at the
\* instant of its first check are allowed, the 21st made at that instant is
\* denied, and a check made one second or more after the key's previous check
\* is allowed.
C11_TokenBucket ==
    [][last'.op = "is_allowed" =>
        LET key == last'.id
            fresh == key \notin DOMAIN buckets
            cap == burst_size * TicksPerSecond
            before == IF fresh THEN cap ELSE buckets[key].tokens
            elapsed == IF fresh THEN 0 ELSE now - buckets[key].last_refill
            raw == before + elapsed * requests_per_second
            available == IF raw > cap THEN cap ELSE raw
            served == available >= TicksPerSecond
        IN /\ (last'.res = "True") <=> served
           /\ buckets'[key].tokens = IF served THEN available - TicksPerSecond
                                     ELSE available
           /\ buckets'[key].last_refill = now
           /\ (requests_per_second = 10 /\ burst_size = 20) =>
                /\ bucket_log'[key].created = now =>
                     ((last'.res = "True") <=> bucket_log'[key].checks <= 20)
                /\ (~fresh /\ elapsed >= TicksPerSecond) => last'.res = "True"
    ]_vars

\* a key of a 10/s, burst 20 limiter whose 22 checks were 20 allowed and one
\* denied at the instant of its creation, and one allowed a second later
C11_Witness ==
    /\ requests_per_second = 10
    /\ burst_size = 20
    /\ \E key \in DOMAIN bucket_log :
         /\ bucket_log[key].checks = 22
         /\ bucket_log[key].denied = 1
         /\ now = bucket_log[key].created + TicksPerSecond
         /\ last = Call("is_allowed", key, "True")
         /\ buckets[key].tokens = 9 * TicksPerSecond


\* ====================================================== properties: LbSpec
\* the processors of l that are healthy, as positions of l
HealthyAt(l, health) ==
    {i \in 1..Len(l) : IF l[i] \in DOMAIN health THEN health[l[i]] ELSE TRUE}
LoadAt(l, loads, i) == IF l[i] \in DOMAIN loads THEN loads[l[i]] ELSE 0

\* C12 (selection): in least-loaded mode get_next_processor returns None when no
\* registered processor is healthy, and otherwise the first processor in
\* registration order among the healthy ones with the least current load.
C12_FirstLeastLoaded ==
    [][(last'.op = "get_next_processor" /\ algorithm = "least_connections") =>
        LET H == HealthyAt(processors, processor_health)
        IN IF H = {} THEN last'.id = 0 /\ last'.res = "None"
           ELSE \E i \in H :
                  /\ last'.id = processors[i]
                  /\ \A j \in H :
                       /\ LoadAt(processors, processor_loads, i)
                            <= LoadAt(processors, processor_loads, j)
                       /\ j < i => LoadAt(processors, processor_loads, j)
                                     > LoadAt(processors, processor_loads, i)
    ]_vars

\* C12: the selection above, and get_next_processor never returns a processor
\* that was marked unhealthy and has not since been explicitly re-marked healthy.
C12_LeastLoaded ==
    /\ C12_FirstLeastLoaded
    /\ [][(last'.op = "get_next_processor" /\ algorithm = "least_connections") =>
            last'.id \notin flagged]_vars


\* ===================================================== properties: BufSpec
\* C13: the list every add_tokens call returns holds exactly the tokens passed to
\* the call, in the same order and with the same content.
C13_InstantEcho ==
    [][last'.op = "add_tokens" => last'.ret = last'.arg]_vars

\* add_tokens returns its batch after an earlier token was corrected
C13_Witness ==
    /\ last.op = "add_tokens"
    /\ Len(last.arg) = 1
    /\ last.ret = last.arg
    /\ correction_history /= <<>>

\* C14: after every add_tokens call, whatever max_context_tokens >= 0 and the
\* batch size, context_buffer holds at most max_context_tokens tokens, and they
\* are the newest ones: the oldest tokens are the ones evicted.
C14_ContextBound ==
    [][last'.op = "add_tokens" =>
        LET all == context_buffer \o last'.arg
            keep == IF Len(all) <= max_context_tokens THEN Len(all)
                    ELSE max_context_tokens
        IN /\ Len(context_buffer') <= max_context_tokens
           /\ context_buffer' = SubSeq(all, Len(all) - keep + 1, Len(all))
    ]_vars

\* C15: a correction pass hands a drained token to the corrector only if its
\* confidence is >= confidence_threshold, so no CorrectionResult comes from a
\* token of any lower confidence in [0, 1].
C15_ThresholdFilter ==
    [][last'.op = "pass" =>
        /\ \A i \in 1..Len(last'.candidates) :
             last'.candidates[i].probability >= confidence_threshold
        /\ \A i \in 1..Len(last'.found) :
             last'.found[i].confidence >= confidence_threshold
    ]_vars


\* C16: within one execution of the correction loop, a pass starts at least
\* correction_interval after the start of the pass before it.
C16_PassSpacing ==
    [][last'.op = "pass" => since_pass >= correction_interval]_vars


\* C17: once stop() has returned, and until start() is called again, the
\* correction loop has terminated and the correction callback is not invoked,
\* wherever the loop was when stop() was called.
C17_StopIsFinal ==
    /\ [](stop_call = "returned" =>
            /\ correction_task \in {"none", "done"}
            /\ live_loops = 0)
    /\ [][(stop_call = "returned" /\ stop_call' = "returned") =>
            /\ correction_task' = correction_task
            /\ last'.op \notin {"pass", "callback", "loop"}
            /\ correction_history' = correction_history]_vars

\* stop() returns after the loop was cancelled inside the callback of the first
\* of two corrections: the second was never applied
C17_Witness ==
    /\ last = Call("stop", 0, "awaited")
    /\ stop_call = "returned"
    /\ correction_task = "done"
    /\ total_corrections = 2
    /\ Len(correction_history) = 1

\* C18: at most one correction loop exists at any time, a start() while the
\* buffer is running creates none, and a stop() after a stop() or before any
\* start() returns at once and changes nothing.
C18_Idempotent ==
    /\ [](live_loops <= 1)
    /\ [][(last'.op = "start" /\ is_running) =>
            /\ live_loops' = live_loops
            /\ correction_task' = correction_task
            /\ is_running']_vars
    /\ [][(last'.op = "stop" /\ (stop_call = "returned" \/ correction_task = "none")) =>
            /\ last'.res = "returned"
            /\ stop_call' = "returned"
            /\ UNCHANGED <<instant_buffer, context_buffer, correction_queue,
                           last_correction_age, correction_task, cancel_requested,
                           is_running, srv_running, total_corrections,
                           correction_history, wake_in, to_apply, since_pass,
                           live_loops>>]_vars

\* a stop() that found the loop of an earlier start() already terminated by an
\* earlier stop(), and returned at once
C18_Witness ==
    /\ last = Call("stop", 0, "returned")
    /\ stop_call = "returned"
    /\ correction_task = "done"
    /\ ~is_running


\* C20: when the corrector raises on a token of a pass, every other token the
\* pass drained is still evaluated (the tokens the filter does not skip are all
\* handed to the corrector) and every correction found is applied and delivered
\* (it is in correction_history or next in line for it).
C20_FailureCostsOneToken ==
    [][(last'.op = "pass" /\ last'.res = "failed") =>
        /\ Len(last'.candidates)
             = Len(SelectSeq(last'.drained, LAMBDA t : ~Skipped(t)))
        /\ Len(correction_history') + Len(to_apply')
             = Len(correction_history) + Len(last'.found)
    ]_vars

\* C21: the length of correction_history never exceeds a fixed bound, however
\* many corrections are applied: a bound that does not grow with the number of
\* corrections is below that number in a run that applies enough of them, so a
\* run that applies MaxTokens corrections, the most a run can apply here, keeps
\* fewer than MaxTokens entries.
C21_HistoryBounded ==
    Len(correction_history) < MaxTokens

\* ================================================= properties: BufLiveSpec
\* C19: a pass that fails (the corrector raises) and a callback that raises leave
\* the correction loop alive and the buffer and the session running; and while
\* the buffer is running, the tokens in correction_queue, among them those
\* added after a failure, are drained by a later pass.
C19_LoopSurvives ==
    /\ [][((last'.op = "pass" /\ last'.res = "failed")
            \/ (last'.op = "callback" /\ last'.res = "raised")) =>
            /\ correction_task' \in {"sleep", "pause", "callback"}
            /\ live_loops' = 1
            /\ is_running' = is_running
            /\ srv_running' = srv_running]_vars
    /\ (is_running /\ correction_queue /= <<>>) ~> (correction_queue = <<>> \/ ~is_running)

\* a pass drains a token that was added after the pass of the first token failed
C19_Witness ==
    /\ last.op = "pass"
    /\ last.res = "ok"
    /\ Len(instant_buffer) = 2
    /\ instant_buffer[1] = Token(NoText, 7)
    /\ last.drained = <<instant_buffer[2]>>
    /\ is_running


\* ==================================================== properties: CompSpec
\* C22: decompress_message(compress_message(message, message_type)) is the
\* message, for every message and message type, on the uncompressed paths (a
\* small message, level NONE, a compression that is not effective) and on the
\* compressed path, and in every state of the adaptive compression levels.
C22_RoundTrip ==
    last.op = "compress_message" => DecompressMessage(last.res) = last.message

\* a transcription result that was compressed at level BEST, which its type
\* has only after an adjustment, and decodes to the message
C22_Witness ==
    /\ last.op = "compress_message"
    /\ last.id = TRANSCRIPTION_RESULT
    /\ last.res[2] = 1
    /\ last.res[7] = BEST
    /\ last.message /= <<>>
    /\ DecompressMessage(last.res) = last.message

\* C23: when the compressed size of a message divided by its original size
\* exceeds compression_threshold_ratio, the packet has flag bit 0 clear and
\* carries the original uncompressed bytes.
C23_IneffectiveSentPlain ==
    [][(/\ last'.op = "compress_message"
        /\ compression_levels[last'.id] /= NONE
        /\ Len(ZlibCompress(Dumps(last'.message), compression_levels[last'.id])) * 10
             > compression_threshold_ratio * Len(Dumps(last'.message)))
       => /\ last'.res[2] % 2 = 0
          /\ SubSeq(last'.res, 7, Len(last'.res)) = Dumps(last'.message)]_vars

\* a message of at least min_compress_size bytes whose compressed form is
\* longer than the threshold allows, sent as it is
C23_Witness ==
    /\ last.op = "compress_message"
    /\ last.path = "ineffective"
    /\ Len(Dumps(last.message)) >= min_compress_size
    /\ Len(ZlibCompress(Dumps(last.message), compression_levels[last.id])) * 10
         > compression_threshold_ratio * Len(Dumps(last.message))
    /\ last.res[2] = 0

\* C36: the header of the packet compress_message(message, message_type)
\* returns has, on the compressed path and on every uncompressed path (small
\* messages included), the value of the message type passed in as its type
\* field, flag bit 0 set iff the payload is compressed, and the payload length
\* as its big-endian length field.
C36_Header ==
    last.op = "compress_message" =>
        LET payload == SubSeq(last.res, 7, Len(last.res))
        IN /\ last.res[1] = last.id
           /\ (last.res[2] % 2 = 1) <=> (payload /= Dumps(last.message))
           /\ FromBigEndian4(SubSeq(last.res, 3, 6)) = Len(payload)

\* the order NONE < FAST < BALANCED < BEST of the levels
LevelOrder == <<NONE, FAST, BALANCED, BEST>>
RankOf(level) == CHOOSE i \in 1..Len(LevelOrder) : LevelOrder[i] = level
\* one step down and one step up the order, staying at its ends
StepDown(level) == LevelOrder[IF RankOf(level) = 1 THEN 1 ELSE RankOf(level) - 1]
StepUp(level) ==
    LevelOrder[IF RankOf(level) = Len(LevelOrder) THEN RankOf(level) ELSE RankOf(level) + 1]

\* an adjustment is evaluated by the call that led to the next state
Evaluated ==
    /\ last'.op = "compress_message"
    /\ last'.path = "compressed"
    /\ adjustment_age >= adjustment_interval
    /\ Len(recent_ratios') >= MIN_SAMPLES

\* C37: when an adjustment is evaluated and the average of the recent ratios
\* exceeds 0.9, the level of every message type moves one step down the order
\* NONE < FAST < BALANCED < BEST; when it is below 0.3, every level moves one
\* step up; otherwise the levels are unchanged.  Adjustments are evaluated at
\* most once per adjustment_interval.
C37_AdaptiveSteps ==
    [][/\ Evaluated =>
            /\ AvgAbove(recent_ratios', POOR_RATIO) =>
                   \A t \in MessageType :
                       compression_levels'[t] = StepDown(compression_levels[t])
            /\ AvgBelow(recent_ratios', EXCELLENT_RATIO) =>
                   \A t \in MessageType :
                       compression_levels'[t] = StepUp(compression_levels[t])
            /\ (~AvgAbove(recent_ratios', POOR_RATIO)
                  /\ ~AvgBelow(recent_ratios', EXCELLENT_RATIO)) =>
                   compression_levels' = compression_levels
            /\ adjustment_age' = 0
       /\ ~Evaluated => compression_levels' = compression_levels]_vars


C25_FlushByTimeout ==
    batch_queue /= <<>> =>
        /\ \/ batch_timer = "armed" /\ pending_age + timer_left <= batch_timeout
           \/ flush_tasks > 0
        /\ pending_age <= batch_timeout

\* two messages went out in one envelope by the task of the timer, after
\* batch_timeout
C25_Witness ==
    /\ last.op = "flush_task"
    /\ last.cause = "timer"
    /\ Len(last.envelope) = 2
    /\ transport = last.envelope
    /\ batch_queue = <<>>
    /\ batch_timer = "none"


\* C26: the messages passed to send_message of one handler reach the transport
\* in the order in which they were passed, for every mix of message types.
C26_DeliveryOrder ==
    \A i, j \in 1..Len(transport) : i < j => transport[i] < transport[j]

\* C38: every message accepted by add_message appears in exactly one emitted
\* envelope, never lost and never duplicated, and the envelopes, one after the
\* other, list the messages in the order in which they were added, for every
\* interleaving of add_message, flush_now and the flushes of the timer.  The
\* envelopes emitted so far followed by the pending messages form one list:
\* a step that accepts a message appends it, once, to the end of the list, a
\* flush moves all pending messages to one envelope, and no other step of the
\* batcher changes the list.
C38_Conservation ==
    [][LET stream == transport \o Seqs(batch_queue)
           stream_after == transport' \o Seqs(batch_queue')
       IN IF last'.op = "send_message"
          THEN batch_queue' = batch_queue
          ELSE /\ \/ stream_after = stream
                  \/ /\ last'.op = "add_message"
                     /\ last'.res = "True"
                     /\ stream_after = Append(stream, last'.id)
                     /\ \A i \in 1..Len(stream) : stream[i] /= last'.id
               /\ transport' /= transport =>
                      /\ batch_queue' = <<>>
                      /\ transport' = transport \o last'.envelope]_vars

\* after an earlier envelope the timer's task emitted one more, of two
\* messages, and all messages went out in the order in which they were added
C38_Witness ==
    /\ last.op = "flush_task"
    /\ last.cause = "timer"
    /\ Len(last.envelope) = 2
    /\ Len(transport) > 2
    /\ bypassed = 0
    /\ transport = [i \in 1..Len(transport) |-> i]
    /\ batch_queue = <<>>

\* ==================================================== properties: RingSpec

\* C27: the capacity of the ring buffer never exceeds max_capacity.
C27_CapacityCap == capacity <= max_capacity

\* C28: every call on the ring buffer returns with the lock released; no call
\* is left waiting for the lock.
C28_LockReleased == ring_lock = "free"

\* ==================================================== properties: PoolSpec

\* C29: whatever size n was requested, returning the array that get_array(n)
\* handed out appends it to the free-list of the smallest catalogued size >= n,
\* unless that list already holds max_arrays_per_size arrays, and then the
\* list is left as it is.
C29_RoundTrip ==
    [][last'.op = "return_array" /\ BestFit(last'.requested) /= 0 =>
          LET ps == BestFit(last'.requested)
          IN pools'[ps] = IF Len(pools[ps]) < max_arrays_per_size
                          THEN Append(pools[ps], last'.res)
                          ELSE pools[ps]]_vars

\* =================================================== properties: CacheSpec

RECURSIVE SumSizes(_)
SumSizes(sizes) ==
    IF DOMAIN sizes = {} THEN 0
    ELSE LET k == CHOOSE k \in DOMAIN sizes : TRUE
         IN sizes[k] + SumSizes([x \in DOMAIN sizes \ {k} |-> sizes[x]])

\* C39: in every reachable state _memory_usage is the sum of the sizes of the
\* entries currently cached.
C39_SizeAccounting == memory_usage = SumSizes(entry_size)

\* =================================================== properties: SweepSpec

\* C31: a sweep removes the record of a finished unit of work (completed,
\* failed or cancelled) exactly when the record is older than twice the sweep
\* interval: every record that old is removed, and no younger one.
C31_Retention ==
    [][last'.op = "sweep" =>
          \A id \in DOMAIN completed_tasks :
              (id \notin DOMAIN completed_tasks') <=>
                  (completed_tasks[id].stored_at < now - 2 * cleanup_interval)]_vars

\* ================================================ properties: TaskLiveSpec

\* C32: a stop() that waits for the workers of a started pool returns.
C32_StopTerminates == (stop_pc = "gather") ~> (stop_pc = "stopped")

\* ===================================================== properties: LatSpec

\* C40: every batch_requests call returns the processor's result for its own
\* request or raises the processor's error; no call waits forever.
C40_EveryCallReturns ==
    /\ \A r \in Requests : (caller[r] /= "none") ~> (caller[r] = "done")
    /\ [][last'.op = "return" /\ last'.res.state = "result" =>
              last'.res.result = last'.id]_vars

=============================================================================
